---- MODULE Spec2Model ----
(***************************************************************************)
(* Medication service of the patient-management backend                    *)
(* (backend/services/medicationService.js): the activity rules applied to  *)
(* a prescription's free-text duration, and the two aggregations built on  *)
(* them, getCurrentMedications and getMedicationHistory.                   *)
(*                                                                         *)
(* Text is a sequence of characters.  A character is a one-letter string   *)
(* for ASCII and the string "U+xxxx" for an Arabic code point.  A Date is  *)
(* a record [day, sec]: whole days since 1970-01-01 and the second within  *)
(* the day; the host's local time is taken to be a zone without daylight   *)
(* saving, so local calendar fields are those of the day number.           *)
(***************************************************************************)
EXTENDS Integers, Sequences, FiniteSets, TLC

(***************************************************************************)
(* Characters and strings                                                  *)
(***************************************************************************)
UpperChars == <<"A","B","C","D","E","F","G","H","I","J","K","L","M",
                "N","O","P","Q","R","S","T","U","V","W","X","Y","Z">>

LowerChars == <<"a","b","c","d","e","f","g","h","i","j","k","l","m",
                "n","o","p","q","r","s","t","u","v","w","x","y","z">>

DigitChars == <<"0","1","2","3","4","5","6","7","8","9">>

\* String.prototype.toLowerCase on one character
LowerChar(c) ==
  IF \E i \in 1..Len(UpperChars) : UpperChars[i] = c
    THEN LowerChars[CHOOSE i \in 1..Len(UpperChars) : UpperChars[i] = c]
    ELSE c

\* String.prototype.toLowerCase
toLowerCase(s) == [i \in 1..Len(s) |-> LowerChar(s[i])]

\* String.prototype.includes
includes(s, sub) ==
  \E i \in 0..(Len(s) - Len(sub)) : SubSeq(s, i + 1, i + Len(sub)) = sub

\* the regular-expression class \d
IsDigit(c) == \E i \in 1..Len(DigitChars) : DigitChars[i] = c

\* the regular-expression class \s (the only white space of the alphabet)
IsSpace(c) == c = " "

\* the literals of the source
KwMustamirr == <<"U+0645","U+0633","U+062A","U+0645","U+0631">>
KwContinuous == <<"c","o","n","t","i","n","u","o","u","s">>
KwOngoing == <<"o","n","g","o","i","n","g">>
UnitYawm == <<"U+064A","U+0648","U+0645">>
UnitDay == <<"d","a","y">>
UnitUsbu == <<"U+0623","U+0633","U+0628","U+0648","U+0639">>
UnitWeek == <<"w","e","e","k">>
UnitShahr == <<"U+0634","U+0647","U+0631">>
UnitMonth == <<"m","o","n","t","h">>

\* the alternatives of the three patterns
DayUnits == {UnitYawm, UnitDay}
WeekUnits == {UnitUsbu, UnitWeek}
MonthUnits == {UnitShahr, UnitMonth}

\* null / undefined: the value of an absent field and of a failed match
\* (no text holds this element: a character is one letter or a code point)
Null == <<"<null>">>

\* a literal of a /i pattern matches at position k (1-based) of s
LiteralAt(s, k, lit) ==
  /\ k + Len(lit) - 1 <= Len(s)
  /\ \A x \in 1..Len(lit) : LowerChar(s[k + x - 1]) = LowerChar(lit[x])

\* /(\d+)\s*(u1|u2)/i can match with the digits at i..j-1
MatchSpan(s, i, j, units) ==
  /\ \A x \in i..(j - 1) : IsDigit(s[x])
  /\ \E k \in j..(Len(s) + 1) :
       /\ \A x \in j..(k - 1) : IsSpace(s[x])
       /\ \E u \in units : LiteralAt(s, k, u)

\* where the leftmost match of /(\d+)\s*(u1|u2)/i begins in s, 0 for none
MatchIndex(s, units) ==
  LET starts == {i \in 1..Len(s) :
                   \E j \in (i + 1)..(Len(s) + 1) : MatchSpan(s, i, j, units)}
  IN IF starts = {} THEN 0
     ELSE CHOOSE a \in starts : \A b \in starts : a <= b

\* s.match(/(\d+)\s*(u1|u2)/i): group 1 of the leftmost match, the digits
\* taken greedily, or Null
RegexMatch(s, units) ==
  LET i == MatchIndex(s, units)
  IN IF i = 0 THEN Null
     ELSE LET ends == {j \in (i + 1)..(Len(s) + 1) : MatchSpan(s, i, j, units)}
              j == CHOOSE a \in ends : \A b \in ends : a >= b
          IN SubSeq(s, i, j - 1)

\* optional chaining: duration?.match(...)
OptMatch(duration, units) ==
  IF duration = Null THEN Null ELSE RegexMatch(duration, units)

DigitValue(c) == (CHOOSE i \in 1..Len(DigitChars) : DigitChars[i] = c) - 1

\* parseInt on a string of decimal digits
RECURSIVE parseInt(_)
parseInt(ds) ==
  IF ds = <<>> THEN 0
  ELSE 10 * parseInt(SubSeq(ds, 1, Len(ds) - 1)) + DigitValue(ds[Len(ds)])

(***************************************************************************)
(* Dates (ECMAScript Date, local time = a zone of fixed offset)            *)
(***************************************************************************)
SecPerDay == 86400

\* the years the calendar getters are evaluated for
MinYear == 2020
MaxYear == 2030

IsLeap(y) == (y % 4 = 0 /\ y % 100 # 0) \/ y % 400 = 0

DaysInYear(y) == IF IsLeap(y) THEN 366 ELSE 365

\* ECMAScript DayFromYear
DayFromYear(y) ==
  365 * (y - 1970) + ((y - 1969) \div 4) - ((y - 1901) \div 100)
    + ((y - 1601) \div 400)

\* days of the year before month m (0-based) begins
MonthStart(y, m) ==
  LET plain == <<0, 31, 59, 90, 120, 151, 181, 212, 243, 273, 304, 334>>
  IN plain[m + 1] + (IF m >= 2 /\ IsLeap(y) THEN 1 ELSE 0)

\* ECMAScript MakeDay(year, month, date): month may exceed 11, date may
\* exceed the month's length
MakeDay(year, month, date) ==
  LET ym == year + (month \div 12)
      mn == month % 12
  IN DayFromYear(ym) + MonthStart(ym, mn) + date - 1

\* ECMAScript YearFromTime
getFullYear(t) ==
  CHOOSE y \in MinYear..MaxYear :
    DayFromYear(y) <= t.day /\ t.day < DayFromYear(y) + DaysInYear(y)

\* ECMAScript MonthFromTime (0-based)
getMonth(t) ==
  LET y == getFullYear(t)
      d == t.day - DayFromYear(y)
  IN CHOOSE m \in 0..11 :
       /\ MonthStart(y, m) <= d
       /\ (m = 11 \/ d < MonthStart(y, m + 1))

\* ECMAScript DateFromTime (1-based day of the month)
getDate(t) ==
  LET y == getFullYear(t)
  IN t.day - DayFromYear(y) - MonthStart(y, getMonth(t)) + 1

\* Date.prototype.setDate(dt): the new time value
setDate(t, dt) ==
  [day |-> MakeDay(getFullYear(t), getMonth(t), dt), sec |-> t.sec]

\* Date.prototype.setMonth(m): the new time value
setMonth(t, m) ==
  [day |-> MakeDay(getFullYear(t), m, getDate(t)), sec |-> t.sec]

DateLeq_Strict(a, b) == a.day < b.day \/ (a.day = b.day /\ a.sec < b.sec)

\* a <= b on Dates (comparison of the time values)
DateLeq(a, b) == a.day < b.day \/ (a.day = b.day /\ a.sec <= b.sec)

\* a - b on Dates, in seconds
DateDiff(a, b) == (a.day - b.day) * SecPerDay + (a.sec - b.sec)

\* the Date of a calendar day (month 0-based) and a second of the day
DateOf(y, m, d, s) == [day |-> MakeDay(y, m, d), sec |-> s]

\* the Date n seconds after t
RECURSIVE AddSeconds(_, _)
AddSeconds(t, n) ==
  IF t.sec + n >= SecPerDay
    THEN AddSeconds([day |-> t.day + 1, sec |-> t.sec], n - SecPerDay)
    ELSE [day |-> t.day, sec |-> t.sec + n]

(***************************************************************************)
(* Activity rules                                                          *)
(***************************************************************************)
\* the default windows, in days
FilterFallbackDays == 90
HistoryFallbackDays == 30

\* truthiness of a duration field: neither absent nor the empty string
Truthy(duration) == duration # Null /\ duration # <<>>

\* the first test of filterActiveMedications' callback
FilterIsContinuous(duration) ==
  /\ Truthy(duration)
  /\ \/ includes(duration, KwMustamirr)
     \/ includes(toLowerCase(duration), KwContinuous)
     \/ includes(toLowerCase(duration), KwOngoing)

\* the first test of isMedicationActive
HistoryIsContinuous(duration) ==
  /\ Truthy(duration)
  /\ \/ includes(duration, KwMustamirr)
     \/ includes(toLowerCase(duration), KwContinuous)

\* endDate of a prescription of `days` days
EndAfterDays(visitDate, days) ==
  setDate(visitDate, getDate(visitDate) + days)

\* endDate of a prescription of `weeks` weeks
EndAfterWeeks(visitDate, weeks) ==
  setDate(visitDate, getDate(visitDate) + (weeks * 7))

\* endDate of a prescription of `months` months
EndAfterMonths(visitDate, months) ==
  setMonth(visitDate, getMonth(visitDate) + months)

FilterFallback_Window30(visitDate, now) ==
  DateDiff(now, visitDate) <= HistoryFallbackDays * SecPerDay

\* the default of filterActiveMedications: prescribed in the last 90 days
FilterFallback(visitDate, now) ==
  DateDiff(now, visitDate) <= FilterFallbackDays * SecPerDay

\* the default of isMedicationActive: prescribed in the last 30 days
HistoryFallback(visitDate, now) ==
  DateDiff(now, visitDate) <= HistoryFallbackDays * SecPerDay

ActiveByPatterns_WeeksFirst(duration, visitDate, now) ==
  LET daysMatch == OptMatch(duration, DayUnits)
      weeksMatch == OptMatch(duration, WeekUnits)
      monthsMatch == OptMatch(duration, MonthUnits)
  IN IF weeksMatch # Null
       THEN DateLeq(now, EndAfterWeeks(visitDate, parseInt(weeksMatch)))
     ELSE IF daysMatch # Null
       THEN DateLeq(now, EndAfterDays(visitDate, parseInt(daysMatch)))
     ELSE IF monthsMatch # Null
       THEN DateLeq(now, EndAfterMonths(visitDate, parseInt(monthsMatch)))
     ELSE FilterFallback(visitDate, now)

\* the callback of filterActiveMedications after the continuous test:
\* days, then weeks, then months, then the default
ActiveByPatterns(duration, visitDate, now) ==
  LET daysMatch == OptMatch(duration, DayUnits)
      weeksMatch == OptMatch(duration, WeekUnits)
      monthsMatch == OptMatch(duration, MonthUnits)
  IN IF daysMatch # Null
       THEN DateLeq(now, EndAfterDays(visitDate, parseInt(daysMatch)))
     ELSE IF weeksMatch # Null
       THEN DateLeq(now, EndAfterWeeks(visitDate, parseInt(weeksMatch)))
     ELSE IF monthsMatch # Null
       THEN DateLeq(now, EndAfterMonths(visitDate, parseInt(monthsMatch)))
     ELSE FilterFallback(visitDate, now)

\* the callback of filterActiveMedications on one record
FilterKeeps(med, now) ==
  IF FilterIsContinuous(med.duration) THEN TRUE
  ELSE ActiveByPatterns(med.duration, med.visitDate, now)

\* filterActiveMedications(medications), `now` being its reading of the clock
filterActiveMedications(medications, now) ==
  SelectSeq(medications, LAMBDA med : FilterKeeps(med, now))

\* isMedicationActive(medication, visitDate), `now` being its reading of
\* the clock
isMedicationActive(medication, visitDate, now) ==
  IF HistoryIsContinuous(medication.duration) THEN TRUE
  ELSE LET daysMatch == OptMatch(medication.duration, DayUnits)
       IN IF daysMatch # Null
            THEN DateLeq(now, EndAfterDays(visitDate, parseInt(daysMatch)))
          ELSE HistoryFallback(visitDate, now)

(***************************************************************************)
(* State                                                                   *)
(***************************************************************************)
VARIABLES
  now,         \* the clock: what new Date() returns
  db,          \* the Visit collection
  resp,        \* the value the last call of the service returned
  med,         \* the prescription handed to the activity rules
  evalOp,      \* which activity function was applied to med last
  evalResult,  \* what it returned
  prev,        \* the value a caller kept from the call before the last one
  upload,      \* the last call of FileUploadManager and what it returned
  fs,          \* the uploads tree: its directories and its files
  req,         \* the doctor-registration request the middleware works on
  move,        \* the call of moveDoctorRequestToApproved in progress
  ui           \* the forgot-password modal of the login page

vars ==
  <<now, db, resp, med, evalOp, evalResult, prev, upload, fs, req, move, ui>>

(***************************************************************************)
(* Inputs of the activity rules                                            *)
(***************************************************************************)
\* the largest count written in a duration text
MaxCount == 3

\* the decimal digits of n
RECURSIVE ToDigits(_)
ToDigits(n) ==
  IF n < 10 THEN <<DigitChars[n + 1]>>
  ELSE ToDigits(n \div 10) \o <<DigitChars[(n % 10) + 1]>>

\* the Arabic plural of "week" (U+0623 U+0633 U+0627 U+0628 U+064A U+0639)
PluralAsabi == <<"U+0623","U+0633","U+0627","U+0628","U+064A","U+0639">>

Counts ==
  {<<>>, <<"1", ".", "5">>, <<"2", "1">>} \cup {ToDigits(n) : n \in 1..MaxCount}

Separators == {<<>>, <<" ">>}

Words ==
  {<<>>, UnitDay, <<"D","a","y","s">>, UnitYawm, UnitWeek, UnitUsbu,
   PluralAsabi, UnitMonth, UnitShahr, KwContinuous,
   <<"O","N","G","O","I","N","G">>, KwMustamirr}

Tails ==
  {<<>>} \cup {<<" ", "2", " ">> \o w : w \in {UnitDay, UnitWeek, KwOngoing}}

\* the duration texts evaluated: count, separator, word, and a second clause
Texts == {c \o s \o w \o t : c \in Counts, s \in Separators, w \in Words, t \in Tails}

\* the visit dates evaluated (months are 0-based)
VisitDates ==
  {DateOf(2025, 0, 31, 36000), DateOf(2024, 0, 31, 86399),
   DateOf(2025, 10, 30, 0)}

\* how many days after the visit the clock is read
DayOffsets ==
  {1, 2, 3, 14, 20, 21, 22, 29, 30, 31, 32, 59, 60, 89, 90, 91}

\* no call is in progress and no returned value is pending
Idle == [op |-> "none"]

\* an uploads tree without directories and files
NoFiles == [dirs |-> {}, files |-> {}]

InitEval ==
  /\ med \in [duration : Texts \cup {Null}, visitDate : VisitDates]
  /\ \E d \in DayOffsets, e \in {0, 1} :
       now = AddSeconds([day |-> med.visitDate.day + d, sec |-> med.visitDate.sec], e)
  /\ db = {}
  /\ resp = Idle
  /\ evalOp = "none"
  /\ evalResult = FALSE
  /\ prev = Idle
  /\ upload = Idle
  /\ fs = NoFiles
  /\ req = Idle
  /\ move = Idle
  /\ ui = Idle

RecordAfterEvaluation_InPlace(record) ==
  [record EXCEPT !.visitDate = setDate(record.visitDate,
                                       getDate(record.visitDate) + 1)]

\* the record after it was evaluated: prescribedDate and endDate are Date
\* objects of their own (new Date(med.visitDate), new Date(prescribedDate)),
\* setDate and setMonth act on endDate, and no field of the record is
\* assigned
RecordAfterEvaluation(record) == record

\* getCurrentMedications' filter applied to the one record
EvalFilter ==
  /\ evalOp' = "filter"
  /\ evalResult' = (filterActiveMedications(<<med>>, now) = <<med>>)
  /\ med' = RecordAfterEvaluation(med)
  /\ UNCHANGED <<now, db, resp, prev, upload, fs, req, move, ui>>

\* getMedicationHistory's isActive flag of the one record
EvalIsActive ==
  /\ evalOp' = "isActive"
  /\ evalResult' = isMedicationActive(med, med.visitDate, now)
  /\ med' = RecordAfterEvaluation(med)
  /\ UNCHANGED <<now, db, resp, prev, upload, fs, req, move, ui>>

NextEval == EvalFilter \/ EvalIsActive

SpecEval == InitEval /\ [][NextEval]_vars

(***************************************************************************)
(* The Visit collection and its query                                      *)
(***************************************************************************)
\* an optional value: Absent, or Some(x)
Absent == {}
Some(x) == {x}
Get(o) == CHOOSE x \in o : TRUE

\* the messages of the two failure results
MsgCurrentFailed == "error-while-fetching-current-medications"
MsgHistoryFailed == "error-while-fetching-medication-history"

\* the doctor name of a visit whose doctor reference does not resolve
DoctorUnspecified == <<"unspecified">>

\* a visit matches { patientId, status: 'completed',
\*   prescribedMedications: { $exists: true, $ne: [] } } and the date range
MatchesQuery_AnyStatus(v, patientId, dateGte, dateLte) ==
  /\ v.patientId = patientId
  /\ v.prescribedMedications # Absent
  /\ Get(v.prescribedMedications) # <<>>
  /\ dateGte # Absent => DateLeq(Get(dateGte), v.visitDate)
  /\ dateLte # Absent => DateLeq(v.visitDate, Get(dateLte))

MatchesQuery(v, patientId, dateGte, dateLte) ==
  /\ v.patientId = patientId
  /\ v.status = "completed"
  /\ v.prescribedMedications # Absent
  /\ Get(v.prescribedMedications) # <<>>
  /\ dateGte # Absent => DateLeq(Get(dateGte), v.visitDate)
  /\ dateLte # Absent => DateLeq(v.visitDate, Get(dateLte))

SortedByVisitDate_Ascending(S) ==
  {f \in [1..Cardinality(S) -> S] :
     /\ \A i, j \in 1..Cardinality(S) : i # j => f[i] # f[j]
     /\ \A i, j \in 1..Cardinality(S) :
          i < j => DateLeq(f[i].visitDate, f[j].visitDate)}

\* .sort({ visitDate: -1 }): the orders the store may return the visits S
\* in, newest first, visits of one date in any order
SortedByVisitDate(S) ==
  {f \in [1..Cardinality(S) -> S] :
     /\ \A i, j \in 1..Cardinality(S) : i # j => f[i] # f[j]
     /\ \A i, j \in 1..Cardinality(S) :
          i < j => DateLeq(f[j].visitDate, f[i].visitDate)}

\* Visit.find(query).sort({ visitDate: -1 }): the possible results
VisitFind(patientId, dateGte, dateLte) ==
  SortedByVisitDate({v \in db : MatchesQuery(v, patientId, dateGte, dateLte)})

\* Visit.countDocuments(query)
countDocuments(patientId, dateGte, dateLte) ==
  Cardinality({v \in db : MatchesQuery(v, patientId, dateGte, dateLte)})

\* .limit(limit).skip(skip) on a sorted result
LimitSkip(visits, limit, skip) ==
  SubSeq(visits, skip + 1, IF skip + limit < Len(visits) THEN skip + limit
                           ELSE Len(visits))

\* the doctor's display name joined to a record
DoctorName(visit) ==
  IF visit.doctorId # Absent /\ Get(visit.doctorId).personId # Absent
    THEN <<"Dr.", Get(Get(visit.doctorId).personId).firstName,
           Get(Get(visit.doctorId).personId).lastName>>
    ELSE DoctorUnspecified

\* visit.doctorId?.specialization
DoctorSpecialization(visit) ==
  IF visit.doctorId # Absent THEN Some(Get(visit.doctorId).specialization)
  ELSE Absent

\* { ...med, visitId, visitDate, doctorName, doctorSpecialization }
JoinVisit(m, visit) ==
  [medicationName |-> m.medicationName,
   duration |-> m.duration,
   visitId |-> visit.id,
   visitDate |-> visit.visitDate,
   doctorName |-> DoctorName(visit),
   doctorSpecialization |-> DoctorSpecialization(visit)]

\* the records one visit contributes, in the order of its list
VisitRecords(visit) ==
  IF visit.prescribedMedications = Absent THEN <<>>
  ELSE LET pm == Get(visit.prescribedMedications)
       IN [i \in 1..Len(pm) |-> JoinVisit(pm[i], visit)]

\* visits.forEach(visit => visit.prescribedMedications.forEach(push))
RECURSIVE ExtractMedications(_)
ExtractMedications(visits) ==
  IF visits = <<>> THEN <<>>
  ELSE VisitRecords(Head(visits)) \o ExtractMedications(Tail(visits))

(***************************************************************************)
(* getCurrentMedications                                                   *)
(***************************************************************************)
\* the value the catch block returns
CurrentFailure == [success |-> FALSE, message |-> MsgCurrentFailed]

\* the value returned for the visits found, the clock read at `at`
CurrentResult(visits, at) ==
  IF Len(visits) = 0
    THEN [success |-> TRUE, medications |-> <<>>, count |-> 0]
    ELSE LET allMedications == ExtractMedications(visits)
             activeMedications == filterActiveMedications(allMedications, at)
         IN [success |-> TRUE,
             medications |-> activeMedications,
             count |-> Len(activeMedications)]

\* getCurrentMedications(patientId); `fails`: the query rejects
GetCurrentMedications(patientId, fails) ==
  /\ resp = Idle
  /\ \/ /\ fails
        /\ resp' = [op |-> "current", patientId |-> patientId, at |-> now,
                    fails |-> TRUE, result |-> CurrentFailure]
     \/ /\ ~fails
        /\ \E visits \in VisitFind(patientId, Absent, Absent) :
             resp' = [op |-> "current", patientId |-> patientId, at |-> now,
                      fails |-> FALSE, result |-> CurrentResult(visits, now)]
  /\ UNCHANGED <<now, db, med, evalOp, evalResult, prev, upload, fs, req, move, ui>>

(***************************************************************************)
(* getMedicationHistory                                                    *)
(***************************************************************************)
NameFilter_Exact(records, medicationName) ==
  SelectSeq(records,
            LAMBDA r : ~(medicationName # Absent /\ Get(medicationName) # <<>>
                         /\ r.medicationName # Get(medicationName)))

\* the records that pass the medicationName filter
NameFilter(records, medicationName) ==
  SelectSeq(records,
            LAMBDA r : ~(medicationName # Absent /\ Get(medicationName) # <<>>
                         /\ ~includes(r.medicationName, Get(medicationName))))

\* a pushed record: the join and the isActive flag, the clock read at `at`
HistoryRecord(r, at) ==
  [medicationName |-> r.medicationName,
   duration |-> r.duration,
   visitId |-> r.visitId,
   visitDate |-> r.visitDate,
   doctorName |-> r.doctorName,
   doctorSpecialization |-> r.doctorSpecialization,
   isActive |-> isMedicationActive(r, r.visitDate, at)]

\* Math.ceil(a / b)
Ceil(a, b) == (a + b - 1) \div b

HistoryStatistics_IgnoringCase(medicationHistory) ==
  LET uniqueMedications ==
        {toLowerCase(medicationHistory[i].medicationName) :
           i \in 1..Len(medicationHistory)}
  IN [totalPrescriptions |-> Len(medicationHistory),
      uniqueMedications |-> Cardinality(uniqueMedications),
      activeMedications |->
        Len(SelectSeq(medicationHistory, LAMBDA m : m.isActive))]

\* the statistics object computed from the records pushed
HistoryStatistics(medicationHistory) ==
  LET uniqueMedications ==
        {medicationHistory[i].medicationName : i \in 1..Len(medicationHistory)}
  IN [totalPrescriptions |-> Len(medicationHistory),
      uniqueMedications |-> Cardinality(uniqueMedications),
      activeMedications |->
        Len(SelectSeq(medicationHistory, LAMBDA m : m.isActive))]

HistoryFailure_WithPagination ==
  [success |-> FALSE, message |-> MsgHistoryFailed,
   pagination |-> [total |-> 0, page |-> 1, limit |-> 50, pages |-> 0]]

\* the value the catch block returns
HistoryFailure == [success |-> FALSE, message |-> MsgHistoryFailed]

\* the value returned for the page of visits found; the clock passes from
\* `at` to the next second after `k` records have been stamped
HistoryResult(visits, count, filters, at, k) ==
  LET kept == NameFilter(ExtractMedications(visits), filters.medicationName)
      medicationHistory ==
        [i \in 1..Len(kept) |->
           HistoryRecord(kept[i], IF i <= k THEN at ELSE AddSeconds(at, 1))]
  IN [success |-> TRUE,
      history |-> medicationHistory,
      statistics |-> HistoryStatistics(medicationHistory),
      pagination |->
        [total |-> count,
         page |-> filters.page,
         limit |-> filters.limit,
         pages |-> Ceil(count, filters.limit)]]

\* the clock may pass this many seconds in a run
MaxTicks == 1

\* the number of visits in the collection
MaxVisits == 3

\* the pages asked for
MaxPage == 2

\* the instant the runs begin at: 2025-06-15 12:00:00
Today == DateOf(2025, 5, 15, 43200)

Ticks == DateDiff(now, Today)

\* getMedicationHistory(patientId, filters); `fails`: a query rejects.
\* The clock may pass to the next second after k of the n records are stamped.
GetMedicationHistory(patientId, filters, fails) ==
  \/ /\ resp = Idle
     /\ fails
     /\ resp' = [op |-> "history", patientId |-> patientId, filters |-> filters,
                 at |-> now, k |-> 0, fails |-> TRUE, pageIds |-> <<>>,
                 result |-> HistoryFailure]
     /\ UNCHANGED <<now, db, med, evalOp, evalResult, prev, upload, fs, req, move, ui>>
  \/ /\ resp = Idle
     /\ ~fails
     /\ \E found \in VisitFind(patientId, filters.startDate, filters.endDate) :
          LET visits == LimitSkip(found, filters.limit,
                                  (filters.page - 1) * filters.limit)
              count == countDocuments(patientId, filters.startDate,
                                      filters.endDate)
              n == Len(NameFilter(ExtractMedications(visits),
                                  filters.medicationName))
          IN \E k \in (IF Ticks < MaxTicks /\ n > 1 THEN 1..n ELSE {n}) :
               /\ resp' = [op |-> "history", patientId |-> patientId,
                           filters |-> filters, at |-> now, k |-> k,
                           fails |-> FALSE,
                           pageIds |-> [i \in 1..Len(visits) |-> visits[i].id],
                           result |-> HistoryResult(visits, count, filters,
                                                    now, k)]
               /\ now' = IF k < n THEN AddSeconds(now, 1) ELSE now
     /\ UNCHANGED <<db, med, evalOp, evalResult, prev, upload, fs, req, move, ui>>

(***************************************************************************)
(* checkMedicationInteractions                                             *)
(***************************************************************************)
\* the texts of the two warnings
MsgDuplicate == "the-same-medication-is-prescribed-more-than-once"
MsgPolypharmacy == "the-patient-takes-many-medications"

\* the least number of active medications that is reported as polypharmacy
PolypharmacyThreshold == 5

\* medications.map(m => m.medicationName.toLowerCase())
MedicationNames(medications) ==
  [i \in 1..Len(medications) |-> toLowerCase(medications[i].medicationName)]

\* names.indexOf(name), counted from 1; name occurs in names
IndexOf(names, name) ==
  CHOOSE i \in 1..Len(names) :
    names[i] = name /\ \A j \in 1..(i - 1) : names[j] # name

\* the first n names filtered by indexOf(name) !== index
RECURSIVE DuplicatesUpTo(_, _)
DuplicatesUpTo(names, n) ==
  IF n = 0 THEN <<>>
  ELSE DuplicatesUpTo(names, n - 1)
         \o (IF IndexOf(names, names[n]) # n THEN <<names[n]>> ELSE <<>>)

\* medicationNames.filter((name, index) => indexOf(name) !== index)
Duplicates(names) == DuplicatesUpTo(names, Len(names))

\* the warnings pushed for the active medications, in the order pushed
Warnings(medications) ==
  LET duplicates == Duplicates(MedicationNames(medications))
  IN (IF Len(duplicates) > 0
        THEN <<[type |-> "DUPLICATE", severity |-> "medium",
                message |-> <<MsgDuplicate>>, medications |-> duplicates]>>
        ELSE <<>>)
     \o (IF Len(medications) >= PolypharmacyThreshold
          THEN <<[type |-> "POLYPHARMACY", severity |-> "low",
                  message |-> <<MsgPolypharmacy, Len(medications)>>,
                  count |-> Len(medications)]>>
          ELSE <<>>)

InteractionsResult_ErrorWhenEmpty(result) ==
  IF ~result.success \/ Len(result.medications) = 0
    THEN [success |-> FALSE, message |-> MsgCurrentFailed]
    ELSE [success |-> TRUE, interactions |-> <<>>,
          warnings |-> Warnings(result.medications),
          medicationCount |-> Len(result.medications)]

\* the value returned for what getCurrentMedications returned. Every
\* prescription carries a medicationName, so toLowerCase never throws and
\* the catch block is not entered.
InteractionsResult(result) ==
  IF ~result.success \/ Len(result.medications) = 0
    THEN [success |-> TRUE, interactions |-> <<>>, warnings |-> <<>>]
    ELSE [success |-> TRUE, interactions |-> <<>>,
          warnings |-> Warnings(result.medications),
          medicationCount |-> Len(result.medications)]

\* checkMedicationInteractions(patientId); `fails`: the query of the
\* getCurrentMedications it calls rejects
CheckMedicationInteractions(patientId, fails) ==
  /\ resp = Idle
  /\ \E visits \in VisitFind(patientId, Absent, Absent) :
       LET result == IF fails THEN CurrentFailure
                     ELSE CurrentResult(visits, now)
       IN resp' = [op |-> "interactions", patientId |-> patientId,
                   at |-> now, fails |-> fails,
                   result |-> InteractionsResult(result)]
  /\ UNCHANGED <<now, db, med, evalOp, evalResult, prev, upload, fs, req, move, ui>>

\* the caller takes the returned value; the service keeps nothing of it
Return ==
  /\ resp # Idle
  /\ resp' = Idle
  /\ UNCHANGED <<now, db, med, evalOp, evalResult, prev, upload, fs, req, move, ui>>

\* the caller keeps the page returned and goes on to ask for another
Keep ==
  /\ resp # Idle
  /\ resp.op = "history"
  /\ resp.result.success
  /\ prev' = resp
  /\ resp' = Idle
  /\ UNCHANGED <<now, db, med, evalOp, evalResult, upload, fs, req, move, ui>>

\* time passes between two calls
Tick ==
  /\ resp = Idle
  /\ Ticks < MaxTicks
  /\ now' = AddSeconds(now, 1)
  /\ UNCHANGED <<db, resp, med, evalOp, evalResult, prev, upload, fs, req, move, ui>>

(***************************************************************************)
(* Inputs of the service                                                   *)
(***************************************************************************)
Patients == {"p1", "p2"}

Aspirin == <<"A", "s", "p">>
AspirinLower == <<"a", "s", "p">>
Metformin == <<"M", "e", "t">>
Ibuprofen == <<"I", "b", "u">>

Rx(name, duration) == [medicationName |-> name, duration |-> duration]

DoctorWithPerson ==
  Some([personId |-> Some([firstName |-> "Omar", lastName |-> "Haddad"]),
        specialization |-> "cardiology"])
DoctorWithoutPerson == Some([personId |-> Absent, specialization |-> "surgery"])

DaysAgo(n) == [day |-> Today.day - n, sec |-> Today.sec]

\* the visits the collection is drawn from
VisitPool ==
  {[id |-> 1, patientId |-> "p1", status |-> "completed",
    visitDate |-> DaysAgo(2), doctorId |-> DoctorWithPerson,
    prescribedMedications |->
      Some(<<Rx(Aspirin, <<"2", " ">> \o UnitDay), Rx(Metformin, Null)>>)],
   [id |-> 2, patientId |-> "p1", status |-> "completed",
    visitDate |-> DaysAgo(30), doctorId |-> DoctorWithoutPerson,
    prescribedMedications |->
      Some(<<Rx(AspirinLower, <<>>), Rx(Ibuprofen, KwContinuous)>>)],
   [id |-> 3, patientId |-> "p1", status |-> "completed",
    visitDate |-> DaysAgo(90), doctorId |-> Absent,
    prescribedMedications |->
      Some(<<Rx(Metformin, Null), Rx(Aspirin, <<"1", " ">> \o UnitWeek),
             Rx(Ibuprofen, KwMustamirr)>>)],
   [id |-> 4, patientId |-> "p1", status |-> "completed",
    visitDate |-> DaysAgo(30), doctorId |-> DoctorWithPerson,
    prescribedMedications |-> Some(<<Rx(Aspirin, <<"3", " ">> \o UnitMonth)>>)],
   [id |-> 5, patientId |-> "p1", status |-> "draft",
    visitDate |-> DaysAgo(1), doctorId |-> DoctorWithPerson,
    prescribedMedications |-> Some(<<Rx(Aspirin, KwContinuous)>>)],
   [id |-> 6, patientId |-> "p2", status |-> "completed",
    visitDate |-> DaysAgo(1), doctorId |-> DoctorWithPerson,
    prescribedMedications |-> Some(<<Rx(Metformin, KwOngoing)>>)],
   [id |-> 7, patientId |-> "p1", status |-> "completed",
    visitDate |-> DaysAgo(5), doctorId |-> DoctorWithPerson,
    prescribedMedications |-> Some(<<>>)],
   [id |-> 8, patientId |-> "p1", status |-> "completed",
    visitDate |-> DaysAgo(5), doctorId |-> DoctorWithPerson,
    prescribedMedications |-> Absent],
   [id |-> 9, patientId |-> "p2", status |-> "completed",
    visitDate |-> DaysAgo(40), doctorId |-> DoctorWithoutPerson,
    prescribedMedications |->
      Some(<<Rx(Metformin, <<"1", " ">> \o UnitWeek),
             Rx(Aspirin, <<"2", " ">> \o UnitDay)>>)]}

\* the filters getMedicationHistory is called with
Filters ==
  [startDate : {Absent, Some(DaysAgo(30))},
   endDate : {Absent, Some(DaysAgo(2))},
   medicationName : {Absent, Some(<<"s", "p">>)},
   page : 1..MaxPage,
   limit : {1, 2, 50}]

Init ==
  /\ db \in {S \in SUBSET VisitPool : Cardinality(S) <= MaxVisits}
  /\ now = Today
  /\ resp = Idle
  /\ med = [duration |-> Null, visitDate |-> Today]
  /\ evalOp = "none"
  /\ evalResult = FALSE
  /\ prev = Idle
  /\ upload = Idle
  /\ fs = NoFiles
  /\ req = Idle
  /\ move = Idle
  /\ ui = Idle

Next ==
  \/ \E p \in Patients, fails \in BOOLEAN : GetCurrentMedications(p, fails)
  \/ \E p \in Patients, fails \in BOOLEAN :
       CheckMedicationInteractions(p, fails)
  \/ \E p \in Patients, f \in Filters, fails \in BOOLEAN :
       GetMedicationHistory(p, f, fails)
  \/ Return
  \/ Tick

Spec == Init /\ [][Next]_vars

\* the filters of a caller that reads the history page after page
PageFilters ==
  {f \in Filters : /\ f.startDate = Absent /\ f.endDate = Absent
                   /\ f.medicationName = Absent /\ f.limit \in {1, 2}}

NextPages ==
  \/ \E p \in Patients, f \in PageFilters, fails \in BOOLEAN :
       GetMedicationHistory(p, f, fails)
  \/ Keep
  \/ Return

SpecPages == Init /\ [][NextPages]_vars

(***************************************************************************)
(* FileUploadManager (backend/utils/fileUpload.js)                         *)
(***************************************************************************)
\* the path module of the host: "posix" or "win32"
Hosts == {"posix", "win32"}

\* path.sep
Sep(host) == IF host = "win32" THEN "\\" ELSE "/"

\* the characters the host's path module takes as separators
Seps(host) == IF host = "win32" THEN {"/", "\\"} ELSE {"/"}

\* the segments of a path between separators, empty ones included
SplitPath(s, seps) ==
  LET cuts == {0, Len(s) + 1} \cup {i \in 1..Len(s) : s[i] \in seps}
      Cut(k) == CHOOSE c \in cuts : Cardinality({d \in cuts : d < c}) = k - 1
  IN [k \in 1..(Cardinality(cuts) - 1) |->
        SubSeq(s, Cut(k) + 1, Cut(k + 1) - 1)]

\* normalizeString of a relative path: "" and "." are dropped, ".." takes
\* the segment before it away, or stays when there is none to take
RECURSIVE NormalizeSegments(_, _)
NormalizeSegments(segs, res) ==
  IF segs = <<>> THEN res
  ELSE IF Head(segs) = <<>> \/ Head(segs) = <<".">>
    THEN NormalizeSegments(Tail(segs), res)
  ELSE IF Head(segs) = <<".", ".">> /\ res # <<>>
            /\ res[Len(res)] # <<".", ".">>
    THEN NormalizeSegments(Tail(segs), SubSeq(res, 1, Len(res) - 1))
  ELSE NormalizeSegments(Tail(segs), Append(res, Head(segs)))

\* the segments written with sep between them
RECURSIVE JoinWith(_, _)
JoinWith(segs, sep) ==
  IF segs = <<>> THEN <<>>
  ELSE IF Len(segs) = 1 THEN Head(segs)
  ELSE Head(segs) \o <<sep>> \o JoinWith(Tail(segs), sep)

\* path.normalize of a path that is not empty and not absolute
normalize(p, host) ==
  LET tail == JoinWith(NormalizeSegments(SplitPath(p, Seps(host)), <<>>),
                       Sep(host))
      trailingSeparator == p[Len(p)] \in Seps(host)
  IN (IF tail = <<>> THEN <<".">> ELSE tail)
     \o (IF trailingSeparator THEN <<Sep(host)>> ELSE <<>>)

\* path.join(...parts); the first part is a plain name, so the joined path
\* is not empty and not absolute
pathJoin(parts, host) ==
  normalize(JoinWith(SelectSeq(parts, LAMBDA x : x # <<>>), Sep(host)), host)

\* the place of the last c in s, 0 if there is none
LastIndexOf(s, c) ==
  IF \E i \in 1..Len(s) : s[i] = c
    THEN CHOOSE i \in 1..Len(s) :
           s[i] = c /\ \A j \in (i + 1)..Len(s) : s[j] # c
    ELSE 0

\* path.extname(p): from the last "." of the last segment to its end; ""
\* if there is no ".", or it is the first character, or the segment is ".."
extname(p, host) ==
  LET segs == SelectSeq(SplitPath(p, Seps(host)), LAMBDA x : x # <<>>)
      base == IF segs = <<>> THEN <<>> ELSE segs[Len(segs)]
      dot == LastIndexOf(base, ".")
  IN IF dot <= 1 \/ base = <<".", ".">> THEN <<>>
     ELSE SubSeq(base, dot, Len(base))

\* String.prototype.padStart(n, c)
RECURSIVE padStart(_, _, _)
padStart(s, n, c) == IF Len(s) >= n THEN s ELSE padStart(<<c>> \o s, n, c)

ReplaceAll_FirstOnly(s, chars, to) ==
  [i \in 1..Len(s) |->
     IF s[i] \in chars /\ \A j \in 1..(i - 1) : s[j] \notin chars
       THEN to ELSE s[i]]

\* s.replace(/[chars]/g, to)
ReplaceAll(s, chars, to) ==
  [i \in 1..Len(s) |-> IF s[i] \in chars THEN to ELSE s[i]]

\* s.split(c)[0]
SplitFirst(s, c) ==
  IF \E i \in 1..Len(s) : s[i] = c
    THEN SubSeq(s, 1, (CHOOSE i \in 1..Len(s) :
                         s[i] = c /\ \A j \in 1..(i - 1) : s[j] # c) - 1)
    ELSE s

\* s.substring(a, b), 0 <= a <= b
substring(s, a, b) == SubSeq(s, a + 1, IF b < Len(s) THEN b ELSE Len(s))

\* the local time of instant t in a zone off seconds east of UTC, written
\* as the Date whose fields the local getters read
LocalTime(t, off) ==
  [day |-> t.day + ((t.sec + off) \div SecPerDay),
   sec |-> (t.sec + off) % SecPerDay]

\* Date.prototype.toISOString: YYYY-MM-DDTHH:mm:ss.sssZ in UTC
toISOString(t, ms) ==
  padStart(ToDigits(getFullYear(t)), 4, "0") \o <<"-">>
    \o padStart(ToDigits(getMonth(t) + 1), 2, "0") \o <<"-">>
    \o padStart(ToDigits(getDate(t)), 2, "0") \o <<"T">>
    \o padStart(ToDigits(t.sec \div 3600), 2, "0") \o <<":">>
    \o padStart(ToDigits((t.sec \div 60) % 60), 2, "0") \o <<":">>
    \o padStart(ToDigits(t.sec % 60), 2, "0") \o <<".">>
    \o padStart(ToDigits(ms), 3, "0") \o <<"Z">>

\* the literals of generateFilePath
Uploads == <<"u", "p", "l", "o", "a", "d", "s">>
PatientPrefix == <<"p", "a", "t", "i", "e", "n", "t", "_">>

\* generateFilePath(uploadType, patientId, originalFilename) on a host, in
\* a time zone, at instant t and millisecond ms, Math.random() written in
\* base 36 as random36
FilePath(uploadType, patientId, originalFilename, host, off, t, ms, random36) ==
  LET year == getFullYear(LocalTime(t, off))
      month == padStart(ToDigits(getMonth(LocalTime(t, off)) + 1), 2, "0")
      timestamp ==
        SplitFirst(ReplaceAll(toISOString(t, ms), {":", "."}, "-"), ".")
      randomSuffix == substring(random36, 2, 10)
      ext == extname(originalFilename, host)
      filename ==
        uploadType \o <<"_">> \o timestamp \o <<"_">> \o randomSuffix \o ext
      directory ==
        pathJoin(<<Uploads, uploadType \o <<"s">>, ToDigits(year), month,
                   PatientPrefix \o patientId>>, host)
      fullPath == pathJoin(<<directory, filename>>, host)
      relativePath == ReplaceAll(fullPath, {"\\"}, "/")
  IN [fullPath |-> fullPath, relativePath |-> relativePath,
      filename |-> filename, directory |-> directory]

\* the literals of generateDoctorRequestPath and moveDoctorRequestToApproved
DoctorRequests == <<"d", "o", "c", "t", "o", "r", "-", "r", "e", "q", "u", "e", "s", "t", "s">>
Pending == <<"p", "e", "n", "d", "i", "n", "g">>
Approved == <<"a", "p", "p", "r", "o", "v", "e", "d">>
RequestPrefix == <<"r", "e", "q", "u", "e", "s", "t", "_">>
DoctorPrefix == <<"d", "o", "c", "t", "o", "r", "_">>

DoctorRequestPath_RandomSuffix(requestId, fieldName, originalFilename, host, t, ms, random36) ==
  LET ext == extname(originalFilename, host)
      timestamp == ToDigits(t.day * SecPerDay + t.sec)
                     \o padStart(ToDigits(ms), 3, "0")
      filename == fieldName \o <<"_">> \o timestamp
                    \o substring(random36, 2, 10) \o ext
      directory == pathJoin(<<Uploads, DoctorRequests, Pending,
                              RequestPrefix \o requestId>>, host)
      fullPath == pathJoin(<<directory, filename>>, host)
  IN [fullPath |-> fullPath,
      relativePath |-> ReplaceAll(fullPath, {"\\"}, "/"),
      filename |-> filename, directory |-> directory]

\* generateDoctorRequestPath(requestId, fieldName, originalFilename) on a
\* host at instant t and millisecond ms; Date.now() is the seconds since the
\* epoch followed by the three digits of ms; random36 is what Math.random()
\* would yield, which the function never asks for
DoctorRequestPath(requestId, fieldName, originalFilename, host, t, ms, random36) ==
  LET ext == extname(originalFilename, host)
      timestamp == ToDigits(t.day * SecPerDay + t.sec)
                     \o padStart(ToDigits(ms), 3, "0")
      filename == fieldName \o <<"_">> \o timestamp \o ext
      directory == pathJoin(<<Uploads, DoctorRequests, Pending,
                              RequestPrefix \o requestId>>, host)
      fullPath == pathJoin(<<directory, filename>>, host)
  IN [fullPath |-> fullPath,
      relativePath |-> ReplaceAll(fullPath, {"\\"}, "/"),
      filename |-> filename, directory |-> directory]

\* the upload types the callers pass
UploadTypes == {<<"v", "i", "s", "i", "t">>, <<"e", "c", "g">>}

\* the patient ids callers pass on from the request: a national id, and
\* texts with dots and separators in them
PatientIds ==
  {<<"1", "2", "3", "4", "5", "6", "7", "8", "9", "0", "1">>,
   <<".", ".", "/", ".", ".", "/", "x">>, <<"a", "/", "b">>, <<"7", ".">>,
   <<"a", "\\", "b">>}

\* the names of the uploaded files
OriginalFilenames ==
  {<<"s", "c", "a", "n", ".", "j", "p", "g">>, <<"n", "o", "t", "e", "s">>,
   <<"a", ".", "b", ".", "P", "D", "F">>}

\* zones of the host, seconds east of UTC
TimeZones == {-18000, 0, 10800}

\* the millisecond of the clock
Milliseconds == {0, 123}

\* what Math.random().toString(36) yields for 0, for 0.5 and for a
\* fraction of many digits
Random36 ==
  {<<"0">>, <<"0", ".", "i">>,
   <<"0", ".", "4", "f", "z", "y", "o", "8", "2", "m", "v", "y", "r">>}

\* the instants the uploads happen at
UploadInstants ==
  {DateOf(2025, 0, 1, 3600), DateOf(2025, 5, 15, 43200),
   DateOf(2025, 11, 31, 82800), DateOf(2024, 9, 5, 34245)}

InitUpload ==
  /\ now \in UploadInstants
  /\ db = {}
  /\ resp = Idle
  /\ med = [duration |-> Null, visitDate |-> Today]
  /\ evalOp = "none"
  /\ evalResult = FALSE
  /\ prev = Idle
  /\ upload = Idle
  /\ fs = NoFiles
  /\ req = Idle
  /\ move = Idle
  /\ ui = Idle

\* FileUploadManager.generateFilePath(uploadType, patientId,
\* originalFilename)
GenerateFilePath(uploadType, patientId, originalFilename, host, off, ms, random36) ==
  /\ upload = Idle
  /\ upload' = [op |-> "generateFilePath", uploadType |-> uploadType,
                patientId |-> patientId,
                originalFilename |-> originalFilename,
                host |-> host, off |-> off, at |-> now, ms |-> ms,
                result |-> FilePath(uploadType, patientId, originalFilename,
                                    host, off, now, ms, random36)]
  /\ UNCHANGED <<now, db, resp, med, evalOp, evalResult, prev, fs, req, move, ui>>

\* the fields of the registration form that carry a file
MedicalCertificate == <<"m", "e", "d", "i", "c", "a", "l", "C", "e", "r", "t", "i", "f", "i", "c", "a", "t", "e">>
LicenseDocument == <<"l", "i", "c", "e", "n", "s", "e", "D", "o", "c", "u", "m", "e", "n", "t">>
ProfilePhoto == <<"p", "r", "o", "f", "i", "l", "e", "P", "h", "o", "t", "o">>

FieldNames == {MedicalCertificate, LicenseDocument, ProfilePhoto}

\* the request ids the middleware makes up
RequestIds == {<<"t", "1">>, <<"t", "2">>}

\* FileUploadManager.generateDoctorRequestPath(requestId, fieldName,
\* originalFilename)
GenerateDoctorRequestPath(requestId, fieldName, originalFilename, host, ms, random36) ==
  /\ upload = Idle
  /\ upload' = [op |-> "generateDoctorRequestPath", requestId |-> requestId,
                fieldName |-> fieldName,
                originalFilename |-> originalFilename,
                host |-> host, at |-> now, ms |-> ms,
                result |-> DoctorRequestPath(requestId, fieldName,
                                             originalFilename, host, now, ms,
                                             random36)]
  /\ UNCHANGED <<now, db, resp, med, evalOp, evalResult, prev, fs, req, move, ui>>

\* the caller takes the returned value; FileUploadManager keeps nothing
TakeUpload ==
  /\ upload # Idle
  /\ upload' = Idle
  /\ UNCHANGED <<now, db, resp, med, evalOp, evalResult, prev, fs, req, move, ui>>

NextUpload ==
  \/ \E uploadType \in UploadTypes, patientId \in PatientIds,
        originalFilename \in OriginalFilenames, host \in Hosts,
        off \in TimeZones, ms \in Milliseconds, random36 \in Random36 :
       GenerateFilePath(uploadType, patientId, originalFilename, host, off,
                        ms, random36)
  \/ \E requestId \in RequestIds, fieldName \in FieldNames,
        originalFilename \in OriginalFilenames, host \in Hosts,
        ms \in Milliseconds, random36 \in Random36 :
       GenerateDoctorRequestPath(requestId, fieldName, originalFilename, host,
                                 ms, random36)
  \/ TakeUpload

SpecUpload == InitUpload /\ [][NextUpload]_vars

(***************************************************************************)
(* moveDoctorRequestToApproved and ensureDirectory                         *)
(***************************************************************************)
\* the uploads tree is [host, dirs, files]: the path module of the host, the
\* directories that exist, and the files, each [dir, name, data]

\* the names readdir finds in a directory
NamesIn(tree, dir) == {f.name : f \in {g \in tree.files : g.dir = dir}}

\* the orders readdir may list a set of names in
Listings(names) ==
  {l \in [1..Cardinality(names) -> names] :
     \A i, j \in 1..Cardinality(names) : i # j => l[i] # l[j]}

\* path.join('uploads', 'doctor-requests', 'pending', `request_${requestId}`)
PendingDir(requestId, host) ==
  pathJoin(<<Uploads, DoctorRequests, Pending, RequestPrefix \o requestId>>,
           host)

\* path.join('uploads', 'doctor-requests', 'approved',
\*           `doctor_${doctorNationalId}`)
ApprovedDir(doctorNationalId, host) ==
  pathJoin(<<Uploads, DoctorRequests, Approved,
             DoctorPrefix \o doctorNationalId>>, host)

\* the tree after ensureDirectory(directory) went through: fs.access finds
\* the directory, or fs.mkdir makes it
EnsureDirectory(tree, directory) ==
  [tree EXCEPT !.dirs = tree.dirs \cup {directory}]

RenameFile_ClearsTarget(tree, oldDir, newDir, name) ==
  LET file == CHOOSE f \in tree.files : f.dir = oldDir /\ f.name = name
  IN [tree EXCEPT !.files =
        {f \in tree.files : f.dir # newDir /\ f # file}
          \cup {[dir |-> newDir, name |-> name, data |-> file.data]}]

\* the tree after fs.rename(path.join(oldDir, name), path.join(newDir,
\* name)) went through: the file is under newDir, in place of any file of
\* that name there
RenameFile(tree, oldDir, newDir, name) ==
  LET file == CHOOSE f \in tree.files : f.dir = oldDir /\ f.name = name
  IN [tree EXCEPT !.files =
        {f \in tree.files : ~(f.dir = newDir /\ f.name = name) /\ f # file}
          \cup {[dir |-> newDir, name |-> name, data |-> file.data]}]

\* the tree after fs.rmdir(directory) went through
RemoveDirectory(tree, directory) ==
  [tree EXCEPT !.dirs = tree.dirs \ {directory}]

\* the doctors' national ids
DoctorIds == {<<"9", "1">>, <<"9", "2">>}

\* the names of the files in the trees
CertificateFile == <<"c", ".", "p", "d", "f">>
PhotoFile == <<"p", ".", "j", "p", "g">>
OlderFile == <<"o", ".", "p", "n", "g">>

\* a file of the tree
File(dir, name, data) == [dir |-> dir, name |-> name, data |-> data]

\* the trees a run begins with, on a host: an empty one; a pending request
\* of two files; the same with an approved directory that holds a file of
\* the same name as a pending one and a file of another name; the same with
\* a second pending request
Trees(host) ==
  LET P1 == PendingDir(<<"t", "1">>, host)
      P2 == PendingDir(<<"t", "2">>, host)
      A1 == ApprovedDir(<<"9", "1">>, host)
      pending1 == {File(P1, CertificateFile, "d1"), File(P1, PhotoFile, "d2")}
      approved1 == {File(A1, CertificateFile, "d3"), File(A1, OlderFile, "d4")}
  IN {[host |-> host, dirs |-> {}, files |-> {}],
      [host |-> host, dirs |-> {P1}, files |-> pending1],
      [host |-> host, dirs |-> {P1, A1}, files |-> pending1 \cup approved1],
      [host |-> host, dirs |-> {P1, P2, A1},
       files |-> pending1 \cup approved1
                   \cup {File(P2, CertificateFile, "d5")}]}

InitMove ==
  /\ now = Today
  /\ db = {}
  /\ resp = Idle
  /\ med = [duration |-> Null, visitDate |-> Today]
  /\ evalOp = "none"
  /\ evalResult = FALSE
  /\ prev = Idle
  /\ upload = Idle
  /\ fs \in UNION {Trees(host) : host \in Hosts}
  /\ req = Idle
  /\ move = Idle
  /\ ui = Idle

\* moveDoctorRequestToApproved(requestId, doctorNationalId) is called: the
\* two paths are computed
MoveCall(requestId, doctorNationalId) ==
  /\ move = Idle
  /\ move' = [op |-> "move", requestId |-> requestId,
              doctorNationalId |-> doctorNationalId,
              pendingDir |-> PendingDir(requestId, fs.host),
              approvedDir |-> ApprovedDir(doctorNationalId, fs.host),
              pc |-> "ensureDirectory", files |-> <<>>, i |-> 1,
              before |-> fs, result |-> <<>>]
  /\ UNCHANGED <<now, db, resp, med, evalOp, evalResult, prev, upload, fs, req, ui>>

\* await this.ensureDirectory(approvedDir); `fails`: fs.mkdir rejects
MoveEnsureDirectory(fails) ==
  /\ move # Idle
  /\ move.pc = "ensureDirectory"
  /\ IF move.approvedDir \notin fs.dirs /\ fails
       THEN /\ move' = [move EXCEPT !.pc = "thrown"]
            /\ fs' = fs
       ELSE /\ move' = [move EXCEPT !.pc = "readdir"]
            /\ fs' = EnsureDirectory(fs, move.approvedDir)
  /\ UNCHANGED <<now, db, resp, med, evalOp, evalResult, prev, upload, req, ui>>

\* const files = await fs.readdir(pendingDir); it rejects when the
\* directory does not exist, or when `fails`
MoveReaddir(fails) ==
  /\ move # Idle
  /\ move.pc = "readdir"
  /\ IF move.pendingDir \notin fs.dirs \/ fails
       THEN move' = [move EXCEPT !.pc = "thrown"]
       ELSE \E files \in Listings(NamesIn(fs, move.pendingDir)) :
              move' = [move EXCEPT !.pc = "rename", !.files = files]
  /\ UNCHANGED <<now, db, resp, med, evalOp, evalResult, prev, upload, fs, req, ui>>

\* one turn of the loop: await fs.rename(oldPath, newPath); `fails`: it
\* rejects
MoveRename(fails) ==
  /\ move # Idle
  /\ move.pc = "rename"
  /\ move.i <= Len(move.files)
  /\ IF fails
       THEN /\ move' = [move EXCEPT !.pc = "thrown"]
            /\ fs' = fs
       ELSE /\ move' = [move EXCEPT !.i = move.i + 1]
            /\ fs' = RenameFile(fs, move.pendingDir, move.approvedDir,
                                move.files[move.i])
  /\ UNCHANGED <<now, db, resp, med, evalOp, evalResult, prev, upload, req, ui>>

\* after the loop: await fs.rmdir(pendingDir), then return approvedDir;
\* `fails`: fs.rmdir rejects
MoveRmdir(fails) ==
  /\ move # Idle
  /\ move.pc = "rename"
  /\ move.i > Len(move.files)
  /\ IF fails \/ NamesIn(fs, move.pendingDir) # {}
       THEN /\ move' = [move EXCEPT !.pc = "thrown"]
            /\ fs' = fs
       ELSE /\ move' = [move EXCEPT !.pc = "returned",
                                    !.result = move.approvedDir]
            /\ fs' = RemoveDirectory(fs, move.pendingDir)
  /\ UNCHANGED <<now, db, resp, med, evalOp, evalResult, prev, upload, req, ui>>

\* the caller takes what the call returned or threw
MoveDone ==
  /\ move # Idle
  /\ move.pc \in {"returned", "thrown"}
  /\ move' = Idle
  /\ UNCHANGED <<now, db, resp, med, evalOp, evalResult, prev, upload, fs, req, ui>>

NextMove ==
  \/ \E requestId \in RequestIds, doctorNationalId \in DoctorIds :
       MoveCall(requestId, doctorNationalId)
  \/ \E fails \in BOOLEAN : MoveEnsureDirectory(fails)
  \/ \E fails \in BOOLEAN : MoveReaddir(fails)
  \/ \E fails \in BOOLEAN : MoveRename(fails)
  \/ \E fails \in BOOLEAN : MoveRmdir(fails)
  \/ MoveDone

SpecMove == InitMove /\ [][NextMove]_vars

(***************************************************************************)
(* uploadDoctorFiles: the disk storage of a doctor-registration request    *)
(***************************************************************************)
TempPrefix == <<"t", "e", "m", "p", "_">>

\* Date.now() as text: the seconds since the epoch, then the milliseconds
DateNow(t, ms) ==
  ToDigits(t.day * SecPerDay + t.sec) \o padStart(ToDigits(ms), 3, "0")

\* `temp_${Date.now()}_${Math.random().toString(36).substring(7)}`
TempRequestId(t, ms, random36) ==
  TempPrefix \o DateNow(t, ms) \o <<"_">>
    \o substring(random36, 7, Len(random36))

\* the names the uploaded files have on the client
UploadedNames == {<<"a", ".", "p", "d", "f">>, <<"b">>}

\* the states Math.random() is found in by the storage
StorageRandom36 ==
  {<<"0", ".", "i">>,
   <<"0", ".", "4", "f", "z", "y", "o", "8", "2", "m", "v", "y", "r">>,
   <<"0", ".", "9", "k", "q", "1", "c", "x", "7", "t", "b", "w", "d">>}

InitStorage ==
  /\ now = Today
  /\ db = {}
  /\ resp = Idle
  /\ med = [duration |-> Null, visitDate |-> Today]
  /\ evalOp = "none"
  /\ evalResult = FALSE
  /\ prev = Idle
  /\ upload = Idle
  /\ \E host \in Hosts : fs = [host |-> host, dirs |-> {}, files |-> {}]
  /\ req = Idle
  /\ move = Idle
  /\ ui = Idle

\* a multipart request reaches uploadFields: req has neither tempRequestId
\* nor uploadDirectories
RequestArrives ==
  /\ req = Idle
  /\ req' = [op |-> "upload", tempRequestId |-> Absent,
             uploadDirectories |-> {}, stored |-> {}, ids |-> {},
             ms |-> 0, failed |-> FALSE, done |-> FALSE]
  /\ UNCHANGED <<now, db, resp, med, evalOp, evalResult, prev, upload, fs, move, ui>>

\* the storage handles one file of the request: destination (a new
\* tempRequestId, the directory made, req.uploadDirectories and
\* req.tempRequestId set), then filename, then the file written there.
\* ms, ms2: the milliseconds Date.now() reads in destination and in
\* filename; `fails`: ensureDirectory rejects and destination calls
\* cb(error)
StoreFile(fieldname, originalname, ms, ms2, random36, fails) ==
  /\ req # Idle
  /\ ~req.failed /\ ~req.done
  /\ fieldname \notin {f.fieldname : f \in req.stored}
  /\ req.ms <= ms /\ ms <= ms2
  /\ LET tempRequestId == TempRequestId(now, ms, random36)
         fileInfo == DoctorRequestPath(tempRequestId, fieldname, originalname,
                                       fs.host, now, ms, random36)
         known == IF req.tempRequestId # Absent THEN Get(req.tempRequestId)
                  ELSE TempPrefix \o DateNow(now, ms2)
         named == DoctorRequestPath(known, fieldname, originalname,
                                    fs.host, now, ms2, random36)
     IN IF fails
          THEN /\ req' = [req EXCEPT !.failed = TRUE, !.ms = ms]
               /\ fs' = fs
          ELSE /\ req' =
                    [req EXCEPT
                       !.tempRequestId = Some(tempRequestId),
                       !.uploadDirectories =
                          {d \in req.uploadDirectories :
                             d.fieldname # fieldname}
                            \cup {[fieldname |-> fieldname,
                                   directory |-> fileInfo.directory]},
                       !.stored = req.stored
                          \cup {[fieldname |-> fieldname,
                                 destination |-> fileInfo.directory,
                                 filename |-> named.filename]},
                       !.ids = req.ids \cup {tempRequestId},
                       !.ms = ms2]
               /\ fs' = [EnsureDirectory(fs, fileInfo.directory) EXCEPT
                           !.files = {f \in fs.files :
                                        ~(f.dir = fileInfo.directory
                                          /\ f.name = named.filename)}
                                      \cup {File(fileInfo.directory,
                                                 named.filename,
                                                 fieldname)}]
  /\ UNCHANGED <<now, db, resp, med, evalOp, evalResult, prev, upload, move, ui>>

\* every file of the request went through the storage: the next middleware
\* runs
AllFilesStored ==
  /\ req # Idle
  /\ ~req.failed /\ ~req.done
  /\ req.stored # {}
  /\ req' = [req EXCEPT !.done = TRUE]
  /\ UNCHANGED <<now, db, resp, med, evalOp, evalResult, prev, upload, fs, move, ui>>

NextStorage ==
  \/ RequestArrives
  \/ \E fieldname \in FieldNames, originalname \in UploadedNames,
        ms \in Milliseconds, ms2 \in Milliseconds,
        random36 \in StorageRandom36, fails \in BOOLEAN :
       StoreFile(fieldname, originalname, ms, ms2, random36, fails)
  \/ AllFilesStored

SpecStorage == InitStorage /\ [][NextStorage]_vars

(***************************************************************************)
(* Login.jsx: the forgot-password modal                                    *)
(***************************************************************************)
\* String.prototype.trim
trim(s) ==
  IF \A i \in 1..Len(s) : IsSpace(s[i]) THEN <<>>
  ELSE LET a == CHOOSE i \in 1..Len(s) :
                  ~IsSpace(s[i]) /\ \A j \in 1..(i - 1) : IsSpace(s[j])
           b == CHOOSE i \in 1..Len(s) :
                  ~IsSpace(s[i]) /\ \A j \in (i + 1)..Len(s) : IsSpace(s[j])
       IN SubSeq(s, a, b)

\* [^\s@]+ matches the whole of s
NoSpaceNoAt(s) ==
  Len(s) > 0 /\ \A i \in 1..Len(s) : ~IsSpace(s[i]) /\ s[i] # "@"

\* /^[^\s@]+@[^\s@]+\.[^\s@]+$/.test(email)
isValidEmail(email) ==
  \E i, j \in 1..Len(email) :
    /\ i < j
    /\ email[i] = "@"
    /\ email[j] = "."
    /\ NoSpaceNoAt(SubSeq(email, 1, i - 1))
    /\ NoSpaceNoAt(SubSeq(email, i + 1, j - 1))
    /\ NoSpaceNoAt(SubSeq(email, j + 1, Len(email)))

MinPasswordLength == 8

\* validatePassword(password).isValid
validatePassword(password) ==
  /\ Len(password) >= MinPasswordLength
  /\ \E i \in 1..Len(password), k \in 1..Len(UpperChars) :
       password[i] = UpperChars[k]
  /\ \E i \in 1..Len(password), k \in 1..Len(LowerChars) :
       password[i] = LowerChars[k]
  /\ \E i \in 1..Len(password) : IsDigit(password[i])

OtpLength == 6
ResendSeconds == 60

\* otp: ['', '', '', '', '', '']
EmptyOtp == [i \in 1..OtpLength |-> <<>>]

\* otp.join('')
JoinOtp(otp) == otp[1] \o otp[2] \o otp[3] \o otp[4] \o otp[5] \o otp[6]

\* what the user types into the e-mail field
FpEmails == {<<>>, <<"a", "b">>, <<" ", "A", "@", "b", ".", "c">>}

\* what the user types into one box of the code: nothing, a digit, a letter
OtpValues == {<<>>, <<"4">>, <<"x">>}

\* the boxes of the code the user types into (index of the box)
OtpIndexes == {0, 5}

\* what the user pastes into the code
OtpPastes ==
  {<<"1", "2", "3", "4", "5", "6">>, <<"1", "2">>, <<"1", "a">>,
   <<"9", "8", "7", "6", "5", "4", "3">>}

\* what the user types into the two password fields
FpPasswords ==
  {<<>>, <<"a", "b", "c">>, <<"A", "b", "c", "d", "e", "f", "g", "1">>}

\* useState({...}) of forgotPasswordModal, and no request in flight
ModalState(isOpen) ==
  [isOpen |-> isOpen, step |-> 1, email |-> <<>>, otp |-> EmptyOtp,
   newPassword |-> <<>>, confirmPassword |-> <<>>, isLoading |-> FALSE,
   error |-> "", resendTimer |-> 0]

InitLogin ==
  /\ now = Today
  /\ db = {}
  /\ resp = Idle
  /\ med = [duration |-> Null, visitDate |-> Today]
  /\ evalOp = "none"
  /\ evalResult = FALSE
  /\ prev = Idle
  /\ upload = Idle
  /\ fs = NoFiles
  /\ req = Idle
  /\ move = Idle
  /\ ui = [modal |-> ModalState(FALSE), pending |-> {}]

\* the modal changes; nothing else does
SetModal(modal) ==
  /\ ui' = [ui EXCEPT !.modal = modal]
  /\ UNCHANGED <<now, db, resp, med, evalOp, evalResult, prev, upload, fs, req, move>>

\* the modal changes and a request to authAPI leaves (one request is in
\* flight at a time)
SetModalAndCall(modal, op, code) ==
  /\ ui.pending = {}
  /\ ui' = [modal |-> modal,
            pending |-> ui.pending
                          \cup {[op |-> op, code |-> code,
                                 outcome |-> "sent"]}]
  /\ UNCHANGED <<now, db, resp, med, evalOp, evalResult, prev, upload, fs, req, move>>

\* the "forgot password" link of the login form
openForgotPasswordModal ==
  /\ ~ui.modal.isOpen
  /\ SetModal(ModalState(TRUE))

\* the close button, the overlay, and the "back to login" buttons
closeForgotPasswordModal ==
  /\ ui.modal.isOpen
  /\ SetModal([ui.modal EXCEPT !.isOpen = FALSE])

\* the interval of the resend timer: one second has passed
ResendTimerTick ==
  /\ ui.modal.resendTimer > 0
  /\ SetModal([ui.modal EXCEPT !.resendTimer = ui.modal.resendTimer - 1])

\* onChange of the e-mail field (step 1)
EmailChange(email) ==
  /\ ui.modal.isOpen /\ ui.modal.step = 1 /\ ~ui.modal.isLoading
  /\ SetModal([ui.modal EXCEPT !.email = email, !.error = ""])

handleSendOTP ==
  /\ ui.modal.isOpen /\ ui.modal.step = 1 /\ ~ui.modal.isLoading
  /\ LET emailToSend == toLowerCase(trim(ui.modal.email))
     IN IF emailToSend = <<>>
          THEN SetModal([ui.modal EXCEPT !.error = "emailRequired"])
        ELSE IF ~isValidEmail(emailToSend)
          THEN SetModal([ui.modal EXCEPT !.error = "emailInvalid"])
        ELSE SetModalAndCall([ui.modal EXCEPT !.isLoading = TRUE,
                                               !.error = ""],
                             "sendOTP", <<>>)

\* handleOtpChange(index, value) (step 2)
handleOtpChange(index, value) ==
  /\ ui.modal.isOpen /\ ui.modal.step = 2 /\ ~ui.modal.isLoading
  /\ value # <<>> => IsDigit(value[1])
  /\ SetModal([ui.modal EXCEPT !.otp[index + 1] = value, !.error = ""])

\* handleOtpPaste(e) (step 2)
handleOtpPaste(text) ==
  /\ ui.modal.isOpen /\ ui.modal.step = 2 /\ ~ui.modal.isLoading
  /\ LET pastedData == substring(text, 0, OtpLength)
     IN /\ \A i \in 1..Len(pastedData) : IsDigit(pastedData[i])
        /\ SetModal([ui.modal EXCEPT
                       !.otp = [i \in 1..OtpLength |->
                                  IF i <= Len(pastedData)
                                    THEN <<pastedData[i]>>
                                    ELSE ui.modal.otp[i]],
                       !.error = ""])

\* the verify button is enabled when the code is complete
handleVerifyOTP ==
  /\ ui.modal.isOpen /\ ui.modal.step = 2 /\ ~ui.modal.isLoading
  /\ Len(JoinOtp(ui.modal.otp)) = OtpLength
  /\ SetModalAndCall([ui.modal EXCEPT !.isLoading = TRUE, !.error = ""],
                     "verifyOTP", JoinOtp(ui.modal.otp))

\* the resend button is shown when the timer is 0
handleResendOTP ==
  /\ ui.modal.isOpen /\ ui.modal.step = 2 /\ ~ui.modal.isLoading
  /\ ui.modal.resendTimer = 0
  /\ SetModalAndCall([ui.modal EXCEPT !.isLoading = TRUE, !.error = ""],
                     "resendOTP", <<>>)

\* the "change e-mail" link of step 2
ChangeEmail ==
  /\ ui.modal.isOpen /\ ui.modal.step = 2
  /\ SetModal([ui.modal EXCEPT !.step = 1, !.error = ""])

\* onChange of the two password fields (step 3)
PasswordChange(newPassword, confirmPassword) ==
  /\ ui.modal.isOpen /\ ui.modal.step = 3 /\ ~ui.modal.isLoading
  /\ SetModal([ui.modal EXCEPT !.newPassword = newPassword,
                               !.confirmPassword = confirmPassword,
                               !.error = ""])

\* the save button is enabled when the password is valid and confirmed
handleResetPassword ==
  /\ ui.modal.isOpen /\ ui.modal.step = 3 /\ ~ui.modal.isLoading
  /\ validatePassword(ui.modal.newPassword)
  /\ ui.modal.newPassword = ui.modal.confirmPassword
  /\ SetModalAndCall([ui.modal EXCEPT !.isLoading = TRUE, !.error = ""],
                     "resetPassword", JoinOtp(ui.modal.otp))

\* the "previous step" link of step 3
BackToOtp ==
  /\ ui.modal.isOpen /\ ui.modal.step = 3
  /\ SetModal([ui.modal EXCEPT !.step = 2, !.error = ""])

\* the server answers a request: the promise of authAPI resolves (ok) or
\* rejects
ServerAnswers(r, ok) ==
  /\ r \in ui.pending
  /\ r.outcome = "sent"
  /\ ui' = [ui EXCEPT !.pending =
              (ui.pending \ {r})
                \cup {[r EXCEPT !.outcome = IF ok THEN "ok" ELSE "error"]}]
  /\ UNCHANGED <<now, db, resp, med, evalOp, evalResult, prev, upload, fs, req, move>>

\* the try and the catch of handleResetPassword after the await
ModalAfterResetPassword(modal, r) ==
  [modal EXCEPT !.isLoading = FALSE, !.step = 4, !.error = ""]

\* the try and the catch of handleVerifyOTP after the await
ModalAfterVerifyOTP(modal, r) ==
  IF r.outcome = "ok"
    THEN [modal EXCEPT !.isLoading = FALSE, !.step = 3, !.error = ""]
    ELSE [modal EXCEPT !.isLoading = FALSE, !.error = "otpWrong"]

\* the try and the catch of handleSendOTP after the await
ModalAfterSendOTP(modal, r) ==
  [modal EXCEPT !.isLoading = FALSE, !.step = 2,
                !.resendTimer = ResendSeconds, !.error = ""]

\* the try and the catch of handleResendOTP after the await
ModalAfterResendOTP(modal, r) ==
  [modal EXCEPT !.isLoading = FALSE, !.resendTimer = ResendSeconds,
                !.otp = EmptyOtp, !.error = ""]

\* the handler that awaited r goes on after its await
HandlerResumes(r) ==
  /\ r \in ui.pending
  /\ r.outcome # "sent"
  /\ ui' = [modal |->
              CASE r.op = "sendOTP" -> ModalAfterSendOTP(ui.modal, r)
                [] r.op = "resendOTP" -> ModalAfterResendOTP(ui.modal, r)
                [] r.op = "verifyOTP" -> ModalAfterVerifyOTP(ui.modal, r)
                [] r.op = "resetPassword" ->
                     ModalAfterResetPassword(ui.modal, r),
            pending |-> ui.pending \ {r}]
  /\ UNCHANGED <<now, db, resp, med, evalOp, evalResult, prev, upload, fs, req, move>>

NextLogin ==
  \/ openForgotPasswordModal
  \/ closeForgotPasswordModal
  \/ ResendTimerTick
  \/ \E email \in FpEmails : EmailChange(email)
  \/ handleSendOTP
  \/ \E index \in OtpIndexes, value \in OtpValues :
       handleOtpChange(index, value)
  \/ \E text \in OtpPastes : handleOtpPaste(text)
  \/ handleVerifyOTP
  \/ handleResendOTP
  \/ ChangeEmail
  \/ \E newPassword \in FpPasswords, confirmPassword \in FpPasswords :
       PasswordChange(newPassword, confirmPassword)
  \/ handleResetPassword
  \/ BackToOtp
  \/ \E r \in ui.pending, ok \in BOOLEAN : ServerAnswers(r, ok)
  \/ \E r \in ui.pending : HandlerResumes(r)

SpecLogin == InitLogin /\ [][NextLogin]_vars

(***************************************************************************)
(* Properties of the activity rules (checked under SpecEval)               *)
(***************************************************************************)
\* the text holds a continuous/ongoing keyword, in any letter case
HasContinuousKeyword(d) ==
  /\ d # Null
  /\ \/ includes(d, KwMustamirr)
     \/ includes(toLowerCase(d), KwContinuous)
     \/ includes(toLowerCase(d), KwOngoing)

\* instant a is not after instant b
NotAfter(a, b) == (b.day - a.day) * 86400 + (b.sec - a.sec) >= 0

\* the Date n days after t, the time of day kept
PlusDays(t, n) == [day |-> t.day + n, sec |-> t.sec]

\* the count the days, weeks, months pattern finds in the text, or Null
DaysIn(d) == OptMatch(d, DayUnits)
WeeksIn(d) == OptMatch(d, WeekUnits)
MonthsIn(d) == OptMatch(d, MonthUnits)

\* the text matches no duration pattern at all
UnknownDuration(d) ==
  /\ ~HasContinuousKeyword(d)
  /\ DaysIn(d) = Null /\ WeeksIn(d) = Null /\ MonthsIn(d) = Null

\* C1: a prescription whose duration holds a continuous/ongoing keyword is
\* evaluated as active whatever the age of the visit, by the filter of
\* getCurrentMedications and by isMedicationActive alike.
C1_ContinuousAlwaysActive ==
  (evalOp # "none" /\ HasContinuousKeyword(med.duration)) => evalResult

\* C2: a prescription of n days is active iff now <= visitDate + n days,
\* the boundary included, under both functions.
C2_DaysBoundaryInclusive ==
  (evalOp # "none" /\ ~HasContinuousKeyword(med.duration)
     /\ DaysIn(med.duration) # Null)
  => (evalResult <=>
        NotAfter(now, PlusDays(med.visitDate, parseInt(DaysIn(med.duration)))))

\* C2 witness: a days prescription evaluated exactly n days after the visit
\* and found active
C2_Witness ==
  /\ evalOp = "isActive"
  /\ ~HasContinuousKeyword(med.duration)
  /\ DaysIn(med.duration) # Null
  /\ now = PlusDays(med.visitDate, parseInt(DaysIn(med.duration)))
  /\ evalResult

\* C3: "3 <asabi>" (the Arabic plural of week) is a 3-week prescription:
\* the filter keeps it iff now <= visitDate + 21 days.
C3_ArabicPluralIsWeeks ==
  (evalOp = "filter" /\ med.duration = <<"3", " ">> \o PluralAsabi)
  => (evalResult <=> NotAfter(now, PlusDays(med.visitDate, 21)))

\* the length of month m (0-based) of year y
DaysInMonth(y, m) ==
  IF m = 1 THEN (IF IsLeap(y) THEN 29 ELSE 28)
  ELSE IF m \in {3, 5, 8, 10} THEN 30 ELSE 31

\* t plus n calendar months: the month number advanced by n, the day of the
\* month kept, or the month's last day when the month is shorter
PlusCalendarMonths(t, n) ==
  LET y == getFullYear(t) + ((getMonth(t) + n) \div 12)
      m == (getMonth(t) + n) % 12
      d == IF getDate(t) <= DaysInMonth(y, m) THEN getDate(t)
           ELSE DaysInMonth(y, m)
  IN DateOf(y, m, d, t.sec)

\* C4: a prescription of n months is active iff now <= visitDate + n
\* calendar months.
C4_CalendarMonths ==
  (evalOp = "filter" /\ ~HasContinuousKeyword(med.duration)
     /\ DaysIn(med.duration) = Null /\ WeeksIn(med.duration) = Null
     /\ MonthsIn(med.duration) # Null)
  => (evalResult <=>
        NotAfter(now, PlusCalendarMonths(med.visitDate,
                                        parseInt(MonthsIn(med.duration)))))

\* C5: an empty, absent or pattern-less duration is active iff the visit is
\* at most 90 days old for the filter of getCurrentMedications and at most
\* 30 days old for isMedicationActive.
C5_UnknownFallbackWindows ==
  UnknownDuration(med.duration)
  => /\ evalOp = "filter"
          => (evalResult <=> NotAfter(now, PlusDays(med.visitDate, 90)))
     /\ evalOp = "isActive"
          => (evalResult <=> NotAfter(now, PlusDays(med.visitDate, 30)))

\* C5 witness: an absent or empty duration, 89 days after the visit, kept
\* by the filter
C5_Witness ==
  /\ evalOp = "filter"
  /\ med.duration \in {Null, <<>>}
  /\ now.day = med.visitDate.day + 89
  /\ evalResult

\* C6: the filter decides by the first of: keyword, days pattern, weeks
\* pattern, months pattern, default window.
C6_Precedence ==
  evalOp = "filter" =>
    LET d == med.duration
        v == med.visitDate
    IN IF HasContinuousKeyword(d) THEN evalResult
       ELSE IF DaysIn(d) # Null
         THEN evalResult <=> NotAfter(now, PlusDays(v, parseInt(DaysIn(d))))
       ELSE IF WeeksIn(d) # Null
         THEN evalResult <=> NotAfter(now, PlusDays(v, 7 * parseInt(WeeksIn(d))))
       ELSE IF MonthsIn(d) # Null
         THEN evalResult <=> NotAfter(now, EndAfterMonths(v, parseInt(MonthsIn(d))))
       ELSE evalResult <=> NotAfter(now, PlusDays(v, 90))

\* C6 witness: a text with a days and a weeks pattern, evaluated when the
\* days have run out and the weeks have not, and dropped by the filter
C6_Witness ==
  /\ evalOp = "filter"
  /\ ~HasContinuousKeyword(med.duration)
  /\ DaysIn(med.duration) # Null /\ WeeksIn(med.duration) # Null
  /\ NotAfter(now, PlusDays(med.visitDate, 7 * parseInt(WeeksIn(med.duration))))
  /\ ~evalResult

\* the count of a unit, a unit whose number is the fraction of a decimal
\* ("1.5 days") counting as not matched
IntegerCount(d, units) ==
  IF d = Null THEN Null
  ELSE LET i == MatchIndex(d, units)
       IN IF i = 0 THEN Null
          ELSE IF i >= 3 /\ d[i - 1] = "." /\ IsDigit(d[i - 2]) THEN Null
          ELSE RegexMatch(d, units)

\* C7: a unit with a non-integer number, or with none, is treated as not
\* matched and the next precedence level decides.
C7_NonIntegerFallsThrough ==
  (evalOp = "filter" /\ ~HasContinuousKeyword(med.duration)) =>
    LET d == med.duration
        v == med.visitDate
        nd == IntegerCount(d, DayUnits)
        nw == IntegerCount(d, WeekUnits)
        nm == IntegerCount(d, MonthUnits)
    IN IF nd # Null
         THEN evalResult <=> NotAfter(now, PlusDays(v, parseInt(nd)))
       ELSE IF nw # Null
         THEN evalResult <=> NotAfter(now, PlusDays(v, 7 * parseInt(nw)))
       ELSE IF nm # Null
         THEN evalResult <=> NotAfter(now, EndAfterMonths(v, parseInt(nm)))
       ELSE evalResult <=> NotAfter(now, PlusDays(v, 90))

\* C8: for every duration that is not unknown, isMedicationActive answers
\* as the filter of getCurrentMedications does.
C8_SameRulesOnBothPaths ==
  (evalOp = "isActive" /\ ~UnknownDuration(med.duration))
  => (evalResult <=> FilterKeeps(med, now))

(***************************************************************************)
(* Properties of the aggregations (checked under Spec)                     *)
(***************************************************************************)
\* the prescriptions, in order, that the records of list L carrying visit
\* `id` were made from
PrescriptionsOf(L, id) ==
  LET own == SelectSeq(L, LAMBDA r : r.visitId = id)
  IN [i \in 1..Len(own) |-> Rx(own[i].medicationName, own[i].duration)]

\* the visit is one of the patient's completed visits with prescriptions
CompletedVisitOf(v, patientId) ==
  /\ v.patientId = patientId
  /\ v.status = "completed"
  /\ v.prescribedMedications # Absent

\* the prescriptions of visit v that are active at instant `at` under the
\* rules of the current-medications path, in the order of the visit's list
ActivePrescriptions(v, at) ==
  SelectSeq(Get(v.prescribedMedications),
            LAMBDA m : FilterKeeps([duration |-> m.duration,
                                    visitDate |-> v.visitDate], at))

\* C9: a successful getCurrentMedications returns exactly the active
\* prescriptions of the patient's completed visits, none missing and none
\* added, and count is the length of the list.
C9_CurrentIsExactlyActive ==
  (resp.op = "current" /\ resp.result.success) =>
    LET L == resp.result.medications
    IN /\ resp.result.count = Len(L)
       /\ \A i \in 1..Len(L) : \E v \in db : v.id = L[i].visitId
       /\ \A v \in db :
            PrescriptionsOf(L, v.id) =
              IF CompletedVisitOf(v, resp.patientId)
                THEN ActivePrescriptions(v, resp.at)
                ELSE <<>>

\* C9 witness: a call that kept one prescription of a visit and dropped
\* another, while the collection held a visit that is not the patient's
\* completed visit
C9_Witness ==
  /\ resp.op = "current"
  /\ resp.result.success
  /\ \E v \in db :
       /\ CompletedVisitOf(v, resp.patientId)
       /\ PrescriptionsOf(resp.result.medications, v.id) # <<>>
       /\ Len(PrescriptionsOf(resp.result.medications, v.id))
            < Len(Get(v.prescribedMedications))
  /\ \E v \in db :
       /\ ~CompletedVisitOf(v, resp.patientId)
       /\ v.prescribedMedications # Absent
       /\ Get(v.prescribedMedications) # <<>>

\* a is b with some elements left out, the order kept
RECURSIVE IsSubsequence(_, _)
IsSubsequence(a, b) ==
  IF a = <<>> THEN TRUE
  ELSE IF b = <<>> THEN FALSE
  ELSE IF Head(a) = Head(b) THEN IsSubsequence(Tail(a), Tail(b))
  ELSE IsSubsequence(a, Tail(b))

\* the list a successful call returned
ReturnedList ==
  IF resp.op = "current" THEN resp.result.medications
  ELSE resp.result.history

\* C10: in the lists both functions return, no record of an older visit
\* precedes a record of a more recent one, and the records of one visit keep
\* the order of that visit's prescribedMedications list.
C10_OrderedByRecency ==
  (resp.op \in {"current", "history"} /\ resp.result.success) =>
    LET L == ReturnedList
    IN /\ \A i, j \in 1..Len(L) :
            i < j => NotAfter(L[j].visitDate, L[i].visitDate)
       /\ \A v \in db :
            v.prescribedMedications # Absent =>
              IsSubsequence(PrescriptionsOf(L, v.id),
                            Get(v.prescribedMedications))

\* C10 witness: a returned list holding records of two visits of different
\* dates, two of them of one visit, with a prescription of that visit
\* left out
C10_Witness ==
  /\ resp.op \in {"current", "history"}
  /\ resp.result.success
  /\ \E i, j \in 1..Len(ReturnedList) :
       ReturnedList[i].visitDate # ReturnedList[j].visitDate
  /\ \E v \in db :
       /\ v.prescribedMedications # Absent
       /\ Len(PrescriptionsOf(ReturnedList, v.id)) >= 2
       /\ Len(PrescriptionsOf(ReturnedList, v.id))
            < Len(Get(v.prescribedMedications))

(***************************************************************************)
(* Properties of checkMedicationInteractions (checked under Spec)          *)
(***************************************************************************)
\* the active prescriptions of the patient at instant `at`, each named by
\* its visit and its place in the visit's list
ActiveOccurrences(patientId, at) ==
  UNION {{<<v.id, j>> :
            j \in {i \in 1..Len(Get(v.prescribedMedications)) :
                     FilterKeeps([duration |->
                                    Get(v.prescribedMedications)[i].duration,
                                  visitDate |-> v.visitDate], at)}} :
           v \in {w \in db : CompletedVisitOf(w, patientId)}}

\* the visit of the collection with this id
VisitById(id) == CHOOSE v \in db : v.id = id

\* the medication name of an occurrence, letter case dropped
NameIgnoringCase(o) ==
  toLowerCase(Get(VisitById(o[1]).prescribedMedications)[o[2]].medicationName)

\* the names that more than one active prescription of the patient carries
DuplicatedNames(patientId, at) ==
  {NameIgnoringCase(o) :
     o \in {a \in ActiveOccurrences(patientId, at) :
              \E b \in ActiveOccurrences(patientId, at) :
                b # a /\ NameIgnoringCase(b) = NameIgnoringCase(a)}}

\* the warnings of one type in the value returned
WarningsOfType(type) ==
  SelectSeq(resp.result.warnings, LAMBDA w : w.type = type)

\* C11: a successful checkMedicationInteractions carries exactly one
\* DUPLICATE warning, of medium severity and listing the duplicated names,
\* if some name occurs more than once (letter case ignored) among the
\* patient's active medications, and no DUPLICATE warning otherwise.
C11_DuplicateWarning ==
  (resp.op = "interactions" /\ resp.result.success) =>
    LET W == WarningsOfType("DUPLICATE")
        dup == DuplicatedNames(resp.patientId, resp.at)
    IN /\ Len(W) = (IF dup # {} THEN 1 ELSE 0)
       /\ \A i \in 1..Len(W) :
            /\ W[i].severity = "medium"
            /\ {W[i].medications[j] : j \in 1..Len(W[i].medications)} = dup

\* the duplicate rule as C11 states it, for the calls whose lookup of the
\* active medications was answered
DuplicateRuleWhenLookupAnswers ==
  (resp.op = "interactions" /\ ~resp.fails) => C11_DuplicateWarning

\* a call that was answered and reported a duplicate out of three or more
\* active medications
DuplicateRuleCase ==
  /\ resp.op = "interactions"
  /\ ~resp.fails
  /\ Len(WarningsOfType("DUPLICATE")) = 1
  /\ Cardinality(ActiveOccurrences(resp.patientId, resp.at)) >= 3

\* C12: a successful checkMedicationInteractions carries exactly one
\* POLYPHARMACY warning, of low severity and with count the number of the
\* patient's active medications, if that number is 5 or more, and no
\* POLYPHARMACY warning if it is 4 or fewer.
C12_PolypharmacyWarning ==
  (resp.op = "interactions" /\ resp.result.success) =>
    LET W == WarningsOfType("POLYPHARMACY")
        n == Cardinality(ActiveOccurrences(resp.patientId, resp.at))
    IN /\ Len(W) = (IF n >= 5 THEN 1 ELSE 0)
       /\ \A i \in 1..Len(W) : W[i].severity = "low" /\ W[i].count = n

\* the polypharmacy rule as C12 states it, for the calls whose lookup of
\* the active medications was answered
PolypharmacyRuleWhenLookupAnswers ==
  (resp.op = "interactions" /\ ~resp.fails) => C12_PolypharmacyWarning

\* a call that was answered and reported exactly five active medications
PolypharmacyRuleCase ==
  /\ resp.op = "interactions"
  /\ ~resp.fails
  /\ Len(WarningsOfType("POLYPHARMACY")) = 1
  /\ Cardinality(ActiveOccurrences(resp.patientId, resp.at)) = 5

\* C13: for a patient with no active medication, no visit or only expired
\* prescriptions, and a store that answers the query,
\* checkMedicationInteractions returns success with empty interactions and
\* warnings, and getCurrentMedications returns success with an empty list
\* and count 0.
C13_NothingActiveIsNoError ==
  (/\ resp.op \in {"current", "interactions"}
   /\ ~resp.fails
   /\ ActiveOccurrences(resp.patientId, resp.at) = {})
  => /\ resp.result.success
     /\ resp.op = "current" =>
          resp.result.medications = <<>> /\ resp.result.count = 0
     /\ resp.op = "interactions" =>
          resp.result.interactions = <<>> /\ resp.result.warnings = <<>>

\* C13 witness: the interaction check of a patient whose only prescriptions
\* have expired
C13_Witness ==
  /\ resp.op = "interactions"
  /\ ~resp.fails
  /\ ActiveOccurrences(resp.patientId, resp.at) = {}
  /\ \E v \in db : /\ CompletedVisitOf(v, resp.patientId)
                   /\ Get(v.prescribedMedications) # <<>>

\* C14: when a query or a later step fails inside getCurrentMedications or
\* getMedicationHistory, the value returned is { success: false, message }
\* with the function's fixed message and nothing else: no medications,
\* history, statistics or pagination.
C14_FailureIsReturned ==
  (resp.op \in {"current", "history"} /\ resp.fails) =>
    /\ DOMAIN resp.result = {"success", "message"}
    /\ ~resp.result.success
    /\ resp.result.message =
         (IF resp.op = "current" THEN MsgCurrentFailed ELSE MsgHistoryFailed)

\* C14 witness: a failed history call of a patient who has visits to show
C14_Witness ==
  /\ resp.op = "history"
  /\ resp.fails
  /\ \E v \in db : /\ CompletedVisitOf(v, resp.patientId)
                   /\ Get(v.prescribedMedications) # <<>>

\* C15: when the lookup of the active medications fails inside
\* checkMedicationInteractions, the value returned is
\* { success: false, message }, never a successful result.
C15_LookupFailureIsReported ==
  (resp.op = "interactions" /\ resp.fails) =>
    /\ ~resp.result.success
    /\ DOMAIN resp.result = {"success", "message"}

\* C16: every successful result of checkMedicationInteractions carries
\* medicationCount, equal to the number of the patient's active medications,
\* 0 when there are none.
C16_MedicationCount ==
  (resp.op = "interactions" /\ resp.result.success) =>
    /\ "medicationCount" \in DOMAIN resp.result
    /\ resp.result.medicationCount =
         Cardinality(ActiveOccurrences(resp.patientId, resp.at))

\* medicationCount as C16 states it, for the calls that found an active
\* medication
MedicationCountWhenSomeActive ==
  (resp.op = "interactions" /\ "medicationCount" \in DOMAIN resp.result)
  => C16_MedicationCount

(***************************************************************************)
(* Properties of getMedicationHistory (checked under Spec and SpecPages)   *)
(***************************************************************************)
\* text s holds text t as a run of consecutive characters
ContainsText(s, t) ==
  \E i \in 0..(Len(s) - Len(t)) : SubSeq(s, i + 1, i + Len(t)) = t

\* the visit date lies in the range of the filters, each bound applied
\* only when it is given
InRange(visitDate, filters) ==
  /\ filters.startDate # Absent => NotAfter(Get(filters.startDate), visitDate)
  /\ filters.endDate # Absent => NotAfter(visitDate, Get(filters.endDate))

\* the name passes the medicationName filter, if one is given
NamePasses(name, filters) ==
  filters.medicationName # Absent =>
    ContainsText(name, Get(filters.medicationName))

\* C17: every record of a successful getMedicationHistory satisfies the
\* filters supplied, the date range with both ends included and the name as
\* a substring; the visits on the page are visits of the patient in the
\* range, and each of their prescriptions that passes the name filter is
\* in the history.
C17_FiltersApplied ==
  (resp.op = "history" /\ resp.result.success) =>
    LET H == resp.result.history
    IN /\ \A i \in 1..Len(H) :
            /\ InRange(H[i].visitDate, resp.filters)
            /\ NamePasses(H[i].medicationName, resp.filters)
            /\ \E j \in 1..Len(resp.pageIds) : resp.pageIds[j] = H[i].visitId
       /\ \A j \in 1..Len(resp.pageIds) :
            LET v == VisitById(resp.pageIds[j])
            IN /\ CompletedVisitOf(v, resp.patientId)
               /\ InRange(v.visitDate, resp.filters)
               /\ PrescriptionsOf(H, v.id) =
                    SelectSeq(Get(v.prescribedMedications),
                              LAMBDA m : NamePasses(m.medicationName,
                                                    resp.filters))

\* C17 witness: a call with all three filters that kept one prescription of
\* a visit on the boundary of the range and dropped another, while the
\* patient had a visit outside the range
C17_Witness ==
  /\ resp.op = "history"
  /\ resp.result.success
  /\ resp.filters.startDate # Absent
  /\ resp.filters.endDate # Absent
  /\ resp.filters.medicationName # Absent
  /\ \E i \in 1..Len(resp.result.history) :
       /\ resp.result.history[i].visitDate = Get(resp.filters.endDate)
       /\ Len(PrescriptionsOf(resp.result.history,
                              resp.result.history[i].visitId))
            < Len(Get(VisitById(resp.result.history[i].visitId)
                        .prescribedMedications))
  /\ \E v \in db : /\ CompletedVisitOf(v, resp.patientId)
                   /\ Get(v.prescribedMedications) # <<>>
                   /\ ~InRange(v.visitDate, resp.filters)

\* the patient's visits that match the query of the call
MatchingVisits(r) ==
  {v \in db : /\ CompletedVisitOf(v, r.patientId)
              /\ Get(v.prescribedMedications) # <<>>
              /\ InRange(v.visitDate, r.filters)}

\* the visit ids of a page, as a set
PageIdSet(r) == {r.pageIds[j] : j \in 1..Len(r.pageIds)}

\* the page holds the visits at positions (p-1)*L+1 .. p*L of a newest-first
\* list of the matching visits, and total and pages count that list
PageOfTheList(r) ==
  LET M == MatchingVisits(r)
      p == r.filters.page
      L == r.filters.limit
      first == (p - 1) * L + 1
      last == IF p * L < Cardinality(M) THEN p * L ELSE Cardinality(M)
  IN /\ r.result.pagination.total = Cardinality(M)
     /\ r.result.pagination.page = p
     /\ r.result.pagination.limit = L
     /\ r.result.pagination.pages * L >= Cardinality(M)
     /\ (r.result.pagination.pages - 1) * L < Cardinality(M)
          \/ (Cardinality(M) = 0 /\ r.result.pagination.pages = 0)
     /\ Len(r.pageIds) = (IF last >= first THEN last - first + 1 ELSE 0)
     /\ \A j \in 1..Len(r.pageIds) :
          LET v == VisitById(r.pageIds[j])
          IN /\ v \in M
             /\ Cardinality({w \in M : ~NotAfter(w.visitDate, v.visitDate)})
                  <= first + j - 2
             /\ Cardinality({w \in M : NotAfter(v.visitDate, w.visitDate)})
                  >= first + j - 1
     /\ \A v \in M :
          PrescriptionsOf(r.result.history, v.id) =
            (IF v.id \in PageIdSet(r) THEN Get(v.prescribedMedications)
             ELSE <<>>)

\* two pages of one reading of the history: the same patient and limit,
\* no date or name filter, different page numbers
PagesOfOneReading ==
  /\ prev # Idle
  /\ resp.op = "history" /\ resp.result.success
  /\ resp.patientId = prev.patientId
  /\ resp.filters.limit = prev.filters.limit
  /\ resp.filters.page # prev.filters.page

\* C18: the pages partition the result: page p of limit L returns the
\* prescriptions of exactly the matching visits at positions (p-1)*L+1 ..
\* p*L of the newest-first list, total is the number of matching visits and
\* pages its quotient by L rounded up, and no visit is returned on two
\* pages, so that reading pages 1..pages yields every matching prescription
\* exactly once.
C18_PagesPartition ==
  /\ (resp.op = "history" /\ resp.result.success
        /\ resp.filters.medicationName = Absent) => PageOfTheList(resp)
  /\ PagesOfOneReading => PageIdSet(prev) \cap PageIdSet(resp) = {}

\* each page taken alone is a page of a newest-first list of the matching
\* visits
EachPageIsAPageOfTheList ==
  (resp.op = "history" /\ resp.result.success
     /\ resp.filters.medicationName = Absent) => PageOfTheList(resp)

\* a second page that is not empty, of a list of three visits
SecondPageCase ==
  /\ resp.op = "history" /\ resp.result.success
  /\ resp.filters.medicationName = Absent
  /\ resp.filters.page = 2
  /\ resp.result.pagination.total = 3
  /\ resp.pageIds # <<>>

\* C19: the statistics of a successful getMedicationHistory describe the
\* history returned with them: totalPrescriptions is the number of records,
\* uniqueMedications the number of distinct medicationName values, and
\* activeMedications the number of records whose isActive is true.
C19_StatisticsMatchHistory ==
  (resp.op = "history" /\ resp.result.success) =>
    LET H == resp.result.history
        st == resp.result.statistics
    IN /\ st.totalPrescriptions = Len(H)
       /\ st.uniqueMedications =
            Cardinality({H[i].medicationName : i \in 1..Len(H)})
       /\ st.activeMedications =
            Cardinality({i \in 1..Len(H) : H[i].isActive})

\* C19 witness: a history with a name repeated, two names that differ in
\* letter case only, an active record and an inactive one
C19_Witness ==
  /\ resp.op = "history"
  /\ resp.result.success
  /\ LET H == resp.result.history
     IN /\ \E i, j \in 1..Len(H) :
             i # j /\ H[i].medicationName = H[j].medicationName
        /\ \E i, j \in 1..Len(H) :
             /\ H[i].medicationName # H[j].medicationName
             /\ toLowerCase(H[i].medicationName)
                  = toLowerCase(H[j].medicationName)
        /\ \E i, j \in 1..Len(H) : H[i].isActive /\ ~H[j].isActive

(***************************************************************************)
(* Properties of generateFilePath (checked under SpecUpload)               *)
(***************************************************************************)
\* the directory of the scheme for a call, its five parts written with sep
\* between them: the year of the host's local time in 4 digits and its
\* month in 2
SchemeDirectory(u, sep) ==
  LET local == LocalTime(u.at, u.off)
      year == ToDigits(getFullYear(local))
      month == IF getMonth(local) + 1 < 10
                 THEN <<"0">> \o ToDigits(getMonth(local) + 1)
                 ELSE ToDigits(getMonth(local) + 1)
  IN Uploads \o <<sep>> \o u.uploadType \o <<"s", sep>> \o year \o <<sep>>
       \o month \o <<sep, "p", "a", "t", "i", "e", "n", "t", "_">>
       \o u.patientId

\* C20: generateFilePath(uploadType, ownerId, originalFilename) returns the
\* directory uploads/<uploadType>s/<year>/<month>/patient_<ownerId>, with
\* the 4-digit year and the zero-padded 2-digit month of the current time.
C20_DirectoryShape ==
  upload.op = "generateFilePath" =>
    /\ upload.result.directory = SchemeDirectory(upload, "/")
    /\ Len(ToDigits(getFullYear(LocalTime(upload.at, upload.off)))) = 4

\* the text holds no path separator
PlainName(s) == \A i \in 1..Len(s) : s[i] \notin {"/", "\\"}

\* the directory is the one of the scheme, written with the host's
\* separator, whenever the owner id holds no separator
SchemeDirectoryForPlainIds ==
  (upload.op = "generateFilePath" /\ PlainName(upload.patientId)) =>
    upload.result.directory = SchemeDirectory(upload, Sep(upload.host))

\* a call with the national id of the example, in a month of one digit, in
\* a zone where the local year is not the year of UTC
SchemeDirectoryCase ==
  /\ upload.op = "generateFilePath"
  /\ Len(upload.patientId) = 11
  /\ getFullYear(LocalTime(upload.at, upload.off)) # getFullYear(upload.at)
  /\ getMonth(LocalTime(upload.at, upload.off)) = 0

\* the decimal digits of n in at least two places
TwoDigits(n) == IF n < 10 THEN <<"0">> \o ToDigits(n) ELSE ToDigits(n)

\* the instant written as YYYY-MM-DDTHH-mm-ss, in UTC
TimestampToTheSecond(t) ==
  ToDigits(getFullYear(t)) \o <<"-">> \o TwoDigits(getMonth(t) + 1)
    \o <<"-">> \o TwoDigits(getDate(t)) \o <<"T">>
    \o TwoDigits(t.sec \div 3600) \o <<"-">>
    \o TwoDigits((t.sec \div 60) % 60) \o <<"-">> \o TwoDigits(t.sec % 60)

\* the extension of a file name: from its last dot to its end, nothing if
\* the name has no dot
ExtensionOf(name) ==
  IF \E i \in 1..Len(name) : name[i] = "."
    THEN SubSeq(name,
                CHOOSE i \in 1..Len(name) :
                  name[i] = "." /\ \A j \in (i + 1)..Len(name) : name[j] # ".",
                Len(name))
    ELSE <<>>

\* text s begins with text t
StartsWith(s, t) == Len(s) >= Len(t) /\ SubSeq(s, 1, Len(t)) = t

\* text s ends with text t
EndsWith(s, t) ==
  Len(s) >= Len(t) /\ SubSeq(s, Len(s) - Len(t) + 1, Len(s)) = t

\* C21: the filename of generateFilePath is <uploadType>_<timestamp>_<token>
\* <ext>: the timestamp is the ISO timestamp to the second with hyphens for
\* colons (2024-01-20T10-30-45), the token has exactly 8 characters whatever
\* the random source yields, and the extension is that of the original
\* filename, empty when it has none.
C21_FilenameShape ==
  upload.op = "generateFilePath" =>
    LET head == upload.uploadType \o <<"_">>
                  \o TimestampToTheSecond(upload.at) \o <<"_">>
        ext == ExtensionOf(upload.originalFilename)
    IN /\ StartsWith(upload.result.filename, head)
       /\ EndsWith(upload.result.filename, ext)
       /\ Len(upload.result.filename) = Len(head) + 8 + Len(ext)

\* the filename as it is built: after the seconds come the milliseconds and
\* "Z", the token has at most 8 characters, the extension is kept verbatim
FilenameAsBuilt ==
  upload.op = "generateFilePath" =>
    LET head == upload.uploadType \o <<"_">>
                  \o TimestampToTheSecond(upload.at) \o <<"-">>
                  \o padStart(ToDigits(upload.ms), 3, "0") \o <<"Z", "_">>
        ext == ExtensionOf(upload.originalFilename)
    IN /\ StartsWith(upload.result.filename, head)
       /\ EndsWith(upload.result.filename, ext)
       /\ Len(upload.result.filename) <= Len(head) + 8 + Len(ext)
       /\ Len(upload.result.filename) >= Len(head) + Len(ext)

\* a filename built with a token of 8 characters and no extension
FilenameCase ==
  /\ upload.op = "generateFilePath"
  /\ ExtensionOf(upload.originalFilename) = <<>>
  /\ Len(upload.result.filename)
       = Len(upload.uploadType) + 1 + 24 + 1 + 8

\* the separators of the host's paths
HostSeparators(host) == IF host = "win32" THEN {"\\", "/"} ELSE {"/"}

\* path p with every separator of the host written as a forward slash
SeparatorsAsSlashes(p, host) ==
  [i \in 1..Len(p) |-> IF p[i] \in HostSeparators(host) THEN "/" ELSE p[i]]

\* the calls that return a path
PathCall == upload.op \in {"generateFilePath", "generateDoctorRequestPath"}

\* C22 as stated: the relativePath of generateFilePath and of
\* generateDoctorRequestPath holds no backslash and is fullPath with every
\* path separator written as a forward slash, on every host and for every
\* input.
C22_RelativePathNormalised ==
  PathCall =>
    /\ \A i \in 1..Len(upload.result.relativePath) :
         upload.result.relativePath[i] # "\\"
    /\ upload.result.relativePath
         = SeparatorsAsSlashes(upload.result.fullPath, upload.host)

\* C22 amended: relativePath is fullPath with every backslash, separator or
\* not, written as a forward slash, so it holds no backslash; it is
\* fullPath with the separators normalised on a host whose separator is the
\* backslash, and on any host when fullPath holds no backslash.
C22_BackslashesReplaced ==
  PathCall =>
    LET full == upload.result.fullPath
        rel == upload.result.relativePath
    IN /\ Len(rel) = Len(full)
       /\ \A i \in 1..Len(rel) :
            rel[i] = (IF full[i] = "\\" THEN "/" ELSE full[i])
       /\ (upload.host = "win32" \/ \A i \in 1..Len(full) : full[i] # "\\")
            => rel = SeparatorsAsSlashes(full, upload.host)

\* C22 witness: a path on a host of forward slashes whose owner id holds a
\* backslash: relativePath is not fullPath
C22_Witness ==
  /\ PathCall
  /\ upload.host = "posix"
  /\ \E i \in 1..Len(upload.result.fullPath) :
       upload.result.fullPath[i] = "\\"
  /\ upload.result.relativePath # upload.result.fullPath

\* Date.now() of instant t and millisecond ms, in decimal digits
EpochMillis(t, ms) ==
  ToDigits(t.day * 86400 + t.sec)
    \o (IF ms < 10 THEN <<"0", "0">> ELSE IF ms < 100 THEN <<"0">> ELSE <<>>)
    \o ToDigits(ms)

\* C23: generateDoctorRequestPath returns the filename
\* <fieldName>_<epochMillis><ext> in the directory
\* uploads/doctor-requests/pending/request_<requestId> and uses no
\* randomness: the value returned is the same whatever the random source
\* holds, so calls with the same arguments in the same millisecond return
\* the same path.
C23_DoctorRequestPathDeterministic ==
  upload.op = "generateDoctorRequestPath" =>
    /\ upload.result.filename
         = upload.fieldName \o <<"_">> \o EpochMillis(upload.at, upload.ms)
             \o ExtensionOf(upload.originalFilename)
    /\ SplitPath(upload.result.directory, HostSeparators(upload.host))
         = <<Uploads, DoctorRequests, Pending,
             <<"r", "e", "q", "u", "e", "s", "t", "_">> \o upload.requestId>>
    /\ \A r \in Random36 :
         upload.result = DoctorRequestPath(upload.requestId, upload.fieldName,
                                           upload.originalFilename,
                                           upload.host, upload.at, upload.ms,
                                           r)

\* C23 witness: a path for a file with an extension, asked for at a
\* millisecond of three digits
C23_Witness ==
  /\ upload.op = "generateDoctorRequestPath"
  /\ ExtensionOf(upload.originalFilename) # <<>>
  /\ upload.ms >= 100

\* C30: the <year>/<month> components of the directory of generateFilePath
\* are the year and the month written in the timestamp of the filename of
\* the same call, at every instant and in every zone of the host (stated
\* for the owner ids that keep the five components of the directory).
C30_DirectoryAgreesWithTimestamp ==
  (upload.op = "generateFilePath" /\ PlainName(upload.patientId)) =>
    LET segs == SplitPath(upload.result.directory,
                          HostSeparators(upload.host))
        k == Len(upload.uploadType) + 2
    IN /\ segs[3] = SubSeq(upload.result.filename, k, k + 3)
       /\ segs[4] = SubSeq(upload.result.filename, k + 5, k + 6)

\* the two agree whenever the host's zone is UTC
DirectoryAgreesWithTimestampInUTC ==
  (upload.op = "generateFilePath" /\ upload.off = 0)
  => C30_DirectoryAgreesWithTimestamp

FilesIn(tree, dir) == {f \in tree.files : f.dir = dir}

\* C25: when moveDoctorRequestToApproved returns, every file that was in
\* the pending directory of the request is in the approved directory of the
\* doctor under the same name, the pending directory no longer exists, the
\* files that were in the approved directory under other names are as they
\* were, and the value returned is the approved directory.
C25_MoveCompletes ==
  (move # Idle /\ move.pc = "returned") =>
    /\ \A f \in FilesIn(move.before, move.pendingDir) :
         [dir |-> move.approvedDir, name |-> f.name, data |-> f.data]
           \in fs.files
    /\ move.pendingDir \notin fs.dirs
    /\ FilesIn(fs, move.pendingDir) = {}
    /\ \A g \in FilesIn(move.before, move.approvedDir) :
         g.name \notin NamesIn(move.before, move.pendingDir) => g \in fs.files
    /\ SplitPath(move.result, HostSeparators(fs.host))
         = <<Uploads, DoctorRequests,
             <<"a", "p", "p", "r", "o", "v", "e", "d">>,
             <<"d", "o", "c", "t", "o", "r", "_">> \o move.doctorNationalId>>

\* C25 witness: a move of two files that returned, into a directory that
\* held a file of another name and a file of the name of a moved one
C25_Witness ==
  /\ move # Idle
  /\ move.pc = "returned"
  /\ Cardinality(FilesIn(move.before, move.pendingDir)) = 2
  /\ \E g \in FilesIn(move.before, move.approvedDir) :
       g.name \notin NamesIn(move.before, move.pendingDir)
  /\ \E g \in FilesIn(move.before, move.approvedDir) :
       g.name \in NamesIn(move.before, move.pendingDir)

\* C26: when moveDoctorRequestToApproved throws, at whatever step, no file
\* has been moved: the pending directory exists as before and holds every
\* file it held when the call began, and the approved directory holds the
\* files it held.
C26_MoveIsAllOrNothing ==
  (move # Idle /\ move.pc = "thrown") =>
    /\ fs.files = move.before.files
    /\ move.pendingDir \in move.before.dirs => move.pendingDir \in fs.dirs

\* a call that throws before the first rename leaves every file in place
NothingMovedBeforeFirstRename ==
  (move # Idle /\ move.pc = "thrown" /\ move.i = 1) =>
    fs.files = move.before.files

(***************************************************************************)
(* Properties of the doctor-request storage (checked under SpecStorage)    *)
(***************************************************************************)
\* the last segment of a directory path
LastSegment(dir, host) ==
  LET segs == SplitPath(dir, HostSeparators(host)) IN segs[Len(segs)]

\* C27: when the storage has handled every file of a doctor-registration
\* request, every file is in the one pending directory
\* request_<req.tempRequestId>, and req.tempRequestId had the same value
\* for every file of the request.
C27_OnePendingDirectoryPerRequest ==
  (req # Idle /\ req.done) =>
    /\ \A f \in req.stored :
         /\ LastSegment(f.destination, fs.host)
              = <<"r", "e", "q", "u", "e", "s", "t", "_">>
                  \o Get(req.tempRequestId)
         /\ \E g \in fs.files :
              g.dir = f.destination /\ g.name = f.filename
    /\ Cardinality(req.ids) = 1

\* every file is in the directory noted for its field in
\* req.uploadDirectories
StoredWhereNoted ==
  (req # Idle /\ req.done) =>
    \A f \in req.stored :
      /\ [fieldname |-> f.fieldname, directory |-> f.destination]
           \in req.uploadDirectories
      /\ \E g \in fs.files : g.dir = f.destination /\ g.name = f.filename

\* a request of one file has one pending directory
SingleFileRequest ==
  (req # Idle /\ req.done /\ Cardinality(req.stored) = 1) =>
    /\ Cardinality(req.ids) = 1
    /\ \A f \in req.stored :
         LastSegment(f.destination, fs.host)
           = <<"r", "e", "q", "u", "e", "s", "t", "_">>
               \o Get(req.tempRequestId)

(***************************************************************************)
(* Properties of the forgot-password modal (checked under SpecLogin)       *)
(***************************************************************************)
\* the requests whose handler resumes in this step
Resumed == {r \in ui.pending : r.outcome # "sent" /\ r \notin ui'.pending}

\* the requests that leave in this step
Issued == {r \in ui'.pending : r.outcome = "sent" /\ r \notin ui.pending}

SixDigits(code) ==
  Len(code) = 6
    /\ \A i \in 1..Len(code) :
         code[i] \in {"0", "1", "2", "3", "4", "5", "6", "7", "8", "9"}

\* C28: the modal comes to step 3 only when verifyOTP has succeeded for a
\* complete code of six digits, comes to step 4 only when resetPassword has
\* succeeded, and stays on step 3 when resetPassword fails.
C28_StepsFollowSuccess ==
  [][/\ (ui'.modal.step = 3 /\ ui.modal.step # 3) =>
          \E r \in Resumed :
            r.op = "verifyOTP" /\ r.outcome = "ok" /\ SixDigits(r.code)
     /\ (ui'.modal.step = 4 /\ ui.modal.step # 4) =>
          \E r \in Resumed : r.op = "resetPassword" /\ r.outcome = "ok"
     /\ \A r \in Resumed :
          (r.op = "resetPassword" /\ r.outcome = "error"
             /\ ui.modal.step = 3) => ui'.modal.step = 3]_vars

\* the part of C28 about step 3: it is entered only on a verifyOTP that
\* succeeded for a code of six digits
StepThreeOnlyAfterVerifiedCode ==
  [][(ui'.modal.step = 3 /\ ui.modal.step # 3) =>
       \E r \in Resumed :
         r.op = "verifyOTP" /\ r.outcome = "ok" /\ SixDigits(r.code)]_vars

\* step 4 is entered only when the handler of resetPassword resumes
StepFourOnlyAfterResetAnswered ==
  [][(ui'.modal.step = 4 /\ ui.modal.step # 4) =>
       \E r \in Resumed : r.op = "resetPassword"]_vars

\* C29: when the handler of an OTP request (sent by handleSendOTP or by
\* handleResendOTP) resumes, the resend timer is 60; the timer goes down by
\* one at a time and is never negative; and the modal issues no OTP request
\* while the timer is above 0.
C29_NoOtpRequestWhileTimerRuns ==
  [][/\ \A r \in Resumed :
          r.op \in {"sendOTP", "resendOTP"} => ui'.modal.resendTimer = 60
     /\ ui'.modal.resendTimer >= 0
     /\ (ui'.modal.resendTimer < ui.modal.resendTimer
           /\ ui.modal.isOpen = ui'.modal.isOpen) =>
          ui'.modal.resendTimer = ui.modal.resendTimer - 1
     /\ \A r \in Issued :
          r.op \in {"sendOTP", "resendOTP"} => ui.modal.resendTimer = 0]_vars

\* the parts of C29 about the timer itself
ResendTimerCountsDown ==
  [][/\ \A r \in Resumed :
          r.op \in {"sendOTP", "resendOTP"} => ui'.modal.resendTimer = 60
     /\ ui'.modal.resendTimer >= 0
     /\ (ui'.modal.resendTimer < ui.modal.resendTimer
           /\ ui.modal.isOpen = ui'.modal.isOpen) =>
          ui'.modal.resendTimer = ui.modal.resendTimer - 1]_vars

\* handleResendOTP issues no request while the timer is above 0
ResendWaitsForTimer ==
  [][\A r \in Issued : r.op = "resendOTP" => ui.modal.resendTimer = 0]_vars

====
